---- MODULE Spec2Model ----
(***************************************************************************)
(* Field-overlay subsystem of pxt-blockly: the tone service                *)
(* (Blockly.AudioContextManager), the Note Picker (Blockly.FieldNote), the *)
(* Grid Picker (pxtblocky.FieldGridPicker) and the toolbox button/label    *)
(* (Blockly.FlyoutButton).                                                 *)
(*                                                                         *)
(* Frequencies and field values are integers in milli-Hertz (1 Hz = 1000). *)
(* Widths are integers in pixels.                                          *)
(***************************************************************************)
EXTENDS Integers, Sequences, FiniteSets, TLC

(***************************************************************************)
(* Bounds of the exploration.                                              *)
(***************************************************************************)
\* key activations (MOUSEDOWN on a piano key) over the life of the field
MaxActivations == 2
\* calls of FieldNote.showEditor_ over the life of the field
MaxOpens == 2
\* calls of FieldGridPicker.showEditor_ over the life of the field
MaxGridOpens == 2
\* largest option count of the Grid Picker's menu generator
MaxOptions == 5
\* calls of FlyoutButton.dispose / FieldGridPicker.dispose that are explored
MaxDisposeCalls == 2

(***************************************************************************)
(* Program constants.                                                      *)
(***************************************************************************)
pianoSizeSmall == 12
pianoSizeMedium == 36
pianoSizeLarge == 60
PianoSizes == {pianoSizeSmall, pianoSizeMedium, pianoSizeLarge}
\* FieldNote.eps_ = 1 Hz
eps_ == 1000
\* initial FieldNote.keyWidth_ / keyHeight_
DefaultKeyWidth == 22
DefaultKeyHeight == 90
selectedKeyColor_ == "yellowgreen"
\* delay of the stop timer of a key activation, in ms
StopDelayMs == 500

\* inputs of the environment: width of the blockly editor minus the toolbox,
\* viewport width, sizes handed to setNumberOfKeys, initial notes
EditorWidths == {100, 1000}
WindowWidths == {700}
SizeArgs == {12, 36, 60, 24}
InitialNotes == {261626, 300000}
\* the keys the user presses (white and black, first and second octave) and
\* the keys the user hovers
PressKeys == {1, 12}
HoverKeys == {1}

Min(a, b) == IF a < b THEN a ELSE b
Max(a, b) == IF a > b THEN a ELSE b
Abs(a) == IF a < 0 THEN 0 - a ELSE a
CeilDiv(a, b) == (a + b - 1) \div b

(***************************************************************************)
(* Math.pow(2, (keyNumber - 49) / 12) * 440 in mHz, for piano keys 16..75  *)
(* (the keys the three piano sizes span).                                  *)
(***************************************************************************)
FreqTab ==
  << 65406, 69296, 73416, 77782, 82407, 87307,
     92499, 97999, 103826, 110000, 116541, 123471,
     130813, 138591, 146832, 155563, 164814, 174614,
     184997, 195998, 207652, 220000, 233082, 246942,
     261626, 277183, 293665, 311127, 329628, 349228,
     369994, 391995, 415305, 440000, 466164, 493883,
     523251, 554365, 587330, 622254, 659255, 698456,
     739989, 783991, 830609, 880000, 932328, 987767,
     1046502, 1108731, 1174659, 1244508, 1318510, 1396913,
     1479978, 1567982, 1661219, 1760000, 1864655, 1975533 >>
KeyFreq(keyNumber) == FreqTab[keyNumber - 15]

VARIABLES
  \* ---- Blockly.AudioContextManager ----
  _frequency,        \* 0, or the frequency handed to the last tone()
  _mute,
  _context,          \* TRUE iff an AudioContext has been created
  _vco,              \* TRUE iff the oscillator and gain nodes exist
  gain,              \* _vca.gain.value (0 when there is no gain node)
  audioEnv,          \* "ok" | "noContext" | "nodeFail": what the browser offers
  \* ---- Blockly.FieldNote (fields) ----
  nKeys_,
  noteFreq_,
  noteName_,
  note_,
  text_,
  soundingKeys_,
  keyWidth_,
  keyHeight_,
  whiteKeyCounter_,
  pianoWidth_,
  sourceBlock_,      \* TRUE while the field is attached to its block
  \* ---- closure of one FieldNote.showEditor_ call ----
  piano,             \* number of ColorButtons created by createNewPiano_
  domKeys,           \* keys rendered into the piano div
  listenKeys,        \* keys whose MOUSEDOWN/MOUSEOVER listeners are registered
  keyTag,            \* "tag" attribute of each rendered key
  keyBg,             \* style.backgroundColor of each rendered key
  keyVisible,
  currentSelectedKey,\* -1 for null
  previousColor,
  pagination,
  mobile,
  navButtons,        \* TRUE iff the prev/next buttons are rendered and listening
  Npages_1,
  currentPage_1,
  labelText,         \* scriptLabel.innerText ("" while there is no label)
  htmlInputValue,    \* Blockly.FieldTextInput.htmlInput_.value
  \* ---- process-wide singletons ----
  widgetOwner,       \* owner of Blockly.WidgetDiv: "none" | "note" | "grid"
  eventGroup,        \* Blockly.Events group: 0 for none, else the group id
  lastChange,        \* last Blockly.Events.Change that was fired
  timers,            \* pending setTimeout callbacks of key activations: the cnt and
                     \* the key of the closure, with the activation and the open it
                     \* belongs to
  userAgentMobile,   \* goog.userAgent.MOBILE || goog.userAgent.ANDROID
  \* ---- history ----
  session,           \* number of showEditor_ calls so far
  actSeq,            \* number of key activations so far
  nextRun,           \* next requests since the open, counted up to the number of
                     \* pages, if there was no prev request; else -1
  \* ---- pxtblocky.FieldGridPicker ----
  options,           \* number of options of the menu generator; values 1..options
  columns_,
  maxRows_,
  width_,
  value_,            \* value of the field: an option value, or 0 for none of them
  tooltips_,         \* the tooltips in the list, by id
  tipDisposed,       \* per tooltip ever created: how often dispose() ran on it
  gridRows,          \* item count of each row (goog.ui.Menu) of the open grid
  overflowY,         \* style.overflowY of the scroll container
  scrolledItem,      \* the item scrolled into view (0 for none)
  gridPositioned,    \* TRUE once WidgetDiv.position ran for the open grid
  gridSourceBlock_,  \* "block" | "disposed"
  gridOpens,         \* number of showEditor_ calls so far
  gridDisposeCalls,  \* number of dispose() calls so far
  \* ---- Blockly.FlyoutButton ----
  isLabel_,
  callbackKey,       \* "none" | "registered" | "unregistered"
  callback_,         \* TRUE iff a callback is set
  warned,            \* TRUE iff the constructor issued console.warn
  icon_,             \* TRUE iff web-icon or web-icon-class is configured
  textWidth,         \* Blockly.Field.getCachedWidth of the text
  width,
  svgGroup_,         \* TRUE iff the SVG group exists
  mouseUpWrapper_,   \* TRUE iff createDom stored the bind data here
  onMouseUpWrapper_, \* TRUE iff bind data is stored here (the prototype's null)
  mouseUpBound,      \* TRUE iff the mouseup listener is bound
  workspace_,        \* TRUE until dispose() clears workspace_ and targetWorkspace_
  callbackCalls,     \* how often the callback was invoked
  btnDisposeCalls,   \* number of dispose() calls so far
  \* ---- placement of the open editor ----
  geo,               \* what the DOM reported to the last showEditor_: anchor,
                     \* overlay size, viewport and scroll offset
  topPosition,       \* FieldNote.showEditor_: top of the keys, relative to the
                     \* piano div below the anchor
  leftPosition,      \* FieldNote.showEditor_: left of the keys, relative to the
                     \* anchor's left edge
  gridXY,            \* FieldGridPicker.showEditor_: the xy handed to
                     \* Blockly.WidgetDiv.position
  \* ---- the host's side of FieldNote ----
  validator_,        \* the opt_validator handed to the constructor
  candidate,         \* the argument of the host's last setValue call
  \* ---- Blockly.FieldTextInputRemovable ----
  removeButton,      \* TRUE iff the remove icon is rendered in the WidgetDiv
  removeButtonMouseWrapper_, \* TRUE iff the icon's mousedown listener is bound
  removeFieldCallback,       \* TRUE iff the source block has a removeFieldCallback
  removeOutcome      \* "none" | "called" | "warned": what removeCallback_ did last

audioVars == <<_frequency, _mute, _context, _vco, gain, audioEnv>>
fieldVars == <<nKeys_, noteFreq_, noteName_, note_, text_, soundingKeys_,
               keyWidth_, keyHeight_, whiteKeyCounter_, pianoWidth_, sourceBlock_>>
keyVars == <<piano, domKeys, listenKeys, keyTag, keyBg, keyVisible,
             currentSelectedKey, previousColor>>
pageVars == <<pagination, mobile, navButtons, Npages_1, currentPage_1, labelText>>
globalVars == <<widgetOwner, eventGroup, lastChange, userAgentMobile>>
histVars == <<session, actSeq, nextRun>>
noteVars == <<audioVars, fieldVars, keyVars, pageVars, htmlInputValue,
              timers, histVars>>
gridVars == <<options, columns_, maxRows_, width_, value_, tooltips_, tipDisposed,
              gridRows, overflowY, scrolledItem, gridPositioned, gridSourceBlock_,
              gridOpens, gridDisposeCalls>>
btnVars == <<isLabel_, callbackKey, callback_, warned, icon_, textWidth, width,
             svgGroup_, mouseUpWrapper_, onMouseUpWrapper_, mouseUpBound, workspace_,
             callbackCalls, btnDisposeCalls>>
placeVars == <<geo, topPosition, leftPosition, gridXY>>
hostVars == <<validator_, candidate>>
txtVars == <<removeButton, removeButtonMouseWrapper_, removeFieldCallback,
             removeOutcome>>
vars == <<noteVars, globalVars, gridVars, btnVars, placeVars, hostVars, txtVars>>


(***************************************************************************)
(* Blockly.AudioContextManager.  The module state is read as one record    *)
(* so that a handler can run stop() and tone() one after the other.        *)
(***************************************************************************)
AudioState == [f |-> _frequency, m |-> _mute, c |-> _context, v |-> _vco, g |-> gain]

\* freshContext(): an AudioContext, or undefined when the constructor is
\* missing or throws
freshContext == audioEnv # "noContext"

\* context(): creates the context on first use and caches it
context(a) == IF a.c THEN a ELSE [a EXCEPT !.c = freshContext]

stop(a) == [a EXCEPT !.g = IF a.v THEN 0 ELSE a.g, !.f = 0]

\* faulty variant: muting leaves the current tone as it is
muteKeepsTone(a, m) == [a EXCEPT !.m = m]

mute(a, m) == stop([a EXCEPT !.m = m])

frequency(a) == a.f

\* faulty variant: the frequency is recorded only once the nodes exist
toneOnExistingNodes(a, freq, gainArg) ==
  IF a.m \/ freq <= 0 \/ ~a.v THEN a ELSE [a EXCEPT !.f = freq, !.g = Max(0, Min(1, gainArg))]

tone(a, freq, gainArg) ==
  IF a.m THEN a
  ELSE IF freq <= 0 THEN a
  ELSE LET a1 == [a EXCEPT !.f = freq]
           a2 == context(a1)
           g1 == Max(0, Min(1, gainArg))
       IN IF ~a2.c THEN a2
          ELSE IF ~a2.v
               THEN IF audioEnv = "nodeFail"
                    THEN [a2 EXCEPT !.v = FALSE]
                    ELSE [a2 EXCEPT !.v = TRUE, !.g = g1]
               ELSE [a2 EXCEPT !.g = g1]

SetAudio(a) ==
  /\ _frequency' = a.f
  /\ _mute' = a.m
  /\ _context' = a.c
  /\ _vco' = a.v
  /\ gain' = a.g
  /\ audioEnv' = audioEnv

(***************************************************************************)
(* Blockly.FieldNote: pure helpers.                                        *)
(***************************************************************************)
\* the three forms the display text takes: a note name, note + ' Hz', and
\* Number(note).toFixed(2)
NameText(s) == [kind |-> "name", name |-> s, v |-> 0]
HzText(n) == [kind |-> "hz", name |-> "", v |-> n]
NumText(n) == [kind |-> "num", name |-> "", v |-> n]

\* Number(x).toFixed(2): rounded to a hundredth of a Hz
toFixed2(n) == ((n + 5) \div 10) * 10

isWhite_(idx) == (idx % 12) \notin {1, 3, 6, 8, 10}

getBgColor_(idx) == IF isWhite_(idx) THEN "white" ELSE "black"

nextNote_(note) ==
  CASE note = "A#" -> "B"
    [] note = "B" -> "C"
    [] note = "C#" -> "D"
    [] note = "D#" -> "E"
    [] note = "E" -> "F"
    [] note = "F#" -> "G"
    [] note = "G#" -> "A"
    [] OTHER -> note \o "#"

nextNotePrefix_(prefix, nk) ==
  CASE prefix = "Deep" -> "Low"
    [] prefix = "Low" -> "Middle"
    [] prefix = "Middle" -> (IF nk = pianoSizeMedium THEN "High" ELSE "Tenor")
    [] prefix = "Tenor" -> "High"
    [] OTHER -> "undefined"

\* faulty variant: every piano starts at key 40
StartKeyAlways40(nk) == 40

StartKey(nk) ==
  CASE nk = pianoSizeSmall -> 40
    [] nk = pianoSizeMedium -> 28
    [] nk = pianoSizeLarge -> 16

StartPrefix(nk) ==
  CASE nk = pianoSizeSmall -> ""
    [] nk = pianoSizeMedium -> "Low"
    [] nk = pianoSizeLarge -> "Deep"

\* the loop of createNotesArray_, read off per index.  curNote at the start
\* of iteration i is nextNote_ applied i times to 'C'; nextNote_ has period
\* 12 ('B' is followed by 'C'), so that is NoteAt(i % 12).
RECURSIVE NoteAt(_)
NoteAt(i) == IF i = 0 THEN "C" ELSE nextNote_(NoteAt(i - 1))

\* prefix during octave oct: nextNotePrefix_ is applied after every 12th key
RECURSIVE PrefixAt(_, _)
PrefixAt(oct, nk) ==
  IF oct = 0 THEN StartPrefix(nk) ELSE nextNotePrefix_(PrefixAt(oct - 1, nk), nk)

\* the nk entries createNotesArray_() pushes: keyNumber = start key + i
NotesArray(nk) ==
  [names |-> [i \in 1..nk |->
                PrefixAt((i - 1) \div 12, nk) \o " " \o NoteAt((i - 1) % 12)],
   freqs |-> [i \in 1..nk |-> KeyFreq(StartKey(nk) + i - 1)]]

NotesSmall == NotesArray(pianoSizeSmall)
NotesMedium == NotesArray(pianoSizeMedium)
NotesLarge == NotesArray(pianoSizeLarge)

createNotesArray_(nk, names, freqs) ==
  LET new == CASE nk = pianoSizeSmall -> NotesSmall
               [] nk = pianoSizeMedium -> NotesMedium
               [] nk = pianoSizeLarge -> NotesLarge
  IN [names |-> names \o new.names, freqs |-> freqs \o new.freqs]

\* faulty variant: a note that matches no key is rounded to a hundredth
getNoteNameRounded_(note, nk, names, freqs) ==
  LET hits == {i \in 1..Min(nk, Len(freqs)) : Abs(freqs[i] - note) < eps_}
  IN IF hits # {}
     THEN NameText(names[CHOOSE i \in hits : \A j \in hits : i <= j])
     ELSE HzText(toFixed2(note))

\* getNoteName_(): the name of the first key within eps_ of the note, else
\* the note followed by ' Hz'.  Entries past the end of the arrays compare
\* as NaN and never match.
getNoteName_(note, nk, names, freqs) ==
  LET hits == {i \in 1..Min(nk, Len(freqs)) : Abs(freqs[i] - note) < eps_}
  IN IF hits # {}
     THEN NameText(names[CHOOSE i \in hits : \A j \in hits : i <= j])
     ELSE HzText(note)

getText(note) == NumText(toFixed2(note))

NoChange == [old |-> -1, new |-> -1, group |-> -1]

\* faulty variant: the group in force is kept
setGroupSkipped(current, fresh) == current

\* Blockly.Events.setGroup(true): a fresh group replaces the one in force
setGroup(current, fresh) == fresh

\* faulty variant: every accepted value counts as a change
DiffersAlways(cur, note) == TRUE

\* 'this.note_ != note'
Differs(cur, note) == cur # note

\* setValue(note) for a well-formed non-negative number: fires a Change
\* event when the value differs, stores it and sets the display text.
\* The result is the new (note_, text_, lastChange).
setValue(note, cur, curText, hasBlock, group, lastEv, nk, names, freqs) ==
  IF note < 0 THEN [note |-> cur, text |-> curText, ev |-> lastEv]
  ELSE [note |-> note,
        text |-> getNoteName_(note, nk, names, freqs),
        ev |-> IF hasBlock /\ Differs(cur, note)
               THEN [old |-> cur, new |-> note, group |-> group]
               ELSE lastEv]


(***************************************************************************)
(* Candidates of setValue and the validators of the field.  A candidate is *)
(* what the caller hands over: a number or numeric string ("num"), a       *)
(* number followed by other characters such as '440abc' ("prefix"), a text *)
(* without a leading number ("text"), the empty string ("empty") or null.  *)
(***************************************************************************)
NumCand(n) == [kind |-> "num", v |-> n]
PrefixCand(n) == [kind |-> "prefix", v |-> n]
TextCand == [kind |-> "text", v |-> 0]
EmptyCand == [kind |-> "empty", v |-> 0]
NullCand == [kind |-> "null", v |-> 0]
NoCandidate == [kind |-> "none", v |-> 0]

\* the candidates the host hands to setValue: among the numbers the
\* frequency of a key, one less than 1 Hz from it, and one that is far from
\* every key and has three decimals
Candidates ==
  {NumCand(261626), NumCand(262500), NumCand(300123), NumCand(440000),
   NumCand(0 - 5000), PrefixCand(440000), PrefixCand(0 - 5000), TextCand,
   EmptyCand, NullCand}

NaN == [nan |-> TRUE, v |-> 0]
Number(n) == [nan |-> FALSE, v |-> n]

\* faulty variant: without the "|| '0'"
parseFloatNoDefault(c) ==
  CASE c.kind \in {"num", "prefix"} -> Number(c.v)
    [] OTHER -> NaN

\* parseFloat(x || '0'): the leading number of the text; '0' stands in for
\* the empty string and for null
parseFloatOrZero(c) ==
  CASE c.kind \in {"num", "prefix"} -> Number(c.v)
    [] c.kind \in {"empty", "null"} -> Number(0)
    [] OTHER -> NaN

\* the result of a validator: null, or the text it returns
Rejected == [ok |-> FALSE, v |-> 0]
Accepted(n) == [ok |-> TRUE, v |-> n]

\* classValidator(text): null for null, for a text without a leading number
\* and for a negative number, else String(n)
classValidator(c) ==
  IF c.kind = "null" THEN Rejected
  ELSE LET n == parseFloatOrZero(c)
       IN IF n.nan \/ n.v < 0 THEN Rejected ELSE Accepted(n.v)

\* the opt_validator functions handed to the constructor: none, one that
\* rejects notes of 300 Hz and above, one that replaces every note by 440 Hz
Validators == {"none", "rejectHigh", "snapToA"}

userValidator(validator, n) ==
  CASE validator = "rejectHigh" -> (IF n >= 300000 THEN Rejected ELSE Accepted(n))
    [] validator = "snapToA" -> Accepted(440000)
    [] OTHER -> Accepted(n)

\* the class validator, then the validator of the constructor on its result
callValidator(validator, c) ==
  IF classValidator(c).ok
  THEN userValidator(validator, classValidator(c).v)
  ELSE Rejected

\* setValue(note) for any candidate: 'note = String(parseFloat(note || "0"))',
\* then the early return on NaN
setValueOf(c, cur, curText, hasBlock, group, lastEv, nk, names, freqs) ==
  LET n == parseFloatOrZero(c)
  IN IF n.nan THEN [note |-> cur, text |-> curText, ev |-> lastEv]
     ELSE setValue(n.v, cur, curText, hasBlock, group, lastEv, nk, names, freqs)


(***************************************************************************)
(* Blockly.WidgetDiv and the text editor FieldNote inherits: the overlay   *)
(* that owns the DOM of the open editor.                                   *)
(***************************************************************************)
NoText == [kind |-> "none", name |-> "", v |-> 0]

\* the closure of showEditor_ once its DOM is gone
EditorGone ==
  /\ piano' = 0
  /\ domKeys' = 0
  /\ listenKeys' = 0
  /\ keyTag' = << >>
  /\ keyBg' = << >>
  /\ keyVisible' = << >>
  /\ currentSelectedKey' = -1
  /\ previousColor' = "undefined"
  /\ pagination' = FALSE
  /\ mobile' = FALSE
  /\ navButtons' = FALSE
  /\ Npages_1' = 0
  /\ currentPage_1' = 0
  /\ labelText' = ""
  /\ htmlInputValue' = NoText
  /\ nextRun' = -1

(***************************************************************************)
(* Placement of the overlay.  A measurement g is what the DOM reports to   *)
(* one showEditor_ call: the anchor's page position (x, y) and scaled box  *)
(* (bw, bh), the viewport height wh, the scroll offset (sx, sy), the       *)
(* direction of the block, and the measured content (mw, mh): the size of  *)
(* the Grid Picker's padding container, or the scroll height of the        *)
(* WidgetDiv under the Note Picker's text input.  The page is either not   *)
(* scrolled or scrolled both ways, and the anchor is inside the viewport.  *)
(***************************************************************************)
Measurements ==
  {g \in [x : {100, 560}, y : {250, 560}, bw : {60}, bh : {20}, wh : {600},
          sx : {0, 50}, sy : {0, 200}, rtl : BOOLEAN, mw : {250}, mh : {30}] :
     (g.sx = 0) <=> (g.sy = 0)}

\* one measurement: a left-to-right block in the upper left of the page
PlainMeasurement ==
  [x |-> 100, y |-> 250, bw |-> 60, bh |-> 20, wh |-> 600,
   sx |-> 0, sy |-> 0, rtl |-> FALSE, mw |-> 250, mh |-> 30]

\* no editor was opened so far
NoGeo ==
  [x |-> 0, y |-> 0, bw |-> 0, bh |-> 0, ww |-> 0, wh |-> 0,
   sx |-> 0, sy |-> 0, ow |-> 0, oh |-> 0, rtl |-> FALSE]

\* the measurement as showEditor_ used it, with the viewport width and the
\* overlay size (ow, oh)
Snapshot(g, windowWidth, ow, oh) ==
  [x |-> g.x, y |-> g.y, bw |-> g.bw, bh |-> g.bh, ww |-> windowWidth,
   wh |-> g.wh, sx |-> g.sx, sy |-> g.sy, ow |-> ow, oh |-> oh, rtl |-> g.rtl]

\* Blockly.FieldDropdown.CHECKMARK_OVERHANG
CHECKMARK_OVERHANG == 25
\* labelHeight_ and prevNextHeight_ of the Note Picker on a mobile device
MobileLabelHeight == 90
MobilePrevNextHeight == 90

\* 'var pianoHeight = this.keyHeight_ + div.scrollHeight + 5'
pianoHeightOf(keyHeight, scrollHeight) == keyHeight + scrollHeight + 5

\* 'Flip the piano vertically if off the bottom'
noteFlips(y, pianoHeight, bh, wh, sy) == y + pianoHeight + bh >= wh + sy

\* faulty variant: the flipped piano is raised by its height only
noteTopFlippedLow(pianoHeight, bh) == 0 - pianoHeight

\* 'topPosition = -(pianoHeight + borderBBox.height)'
noteTopFlipped(pianoHeight, bh) == 0 - (pianoHeight + bh)

\* "Don't go offscreen right": leftPosition in left-to-right mode
noteLeftLTR(x, windowWidth, sx, pianoWidth) ==
  IF x > (windowWidth + sx) - pianoWidth
  THEN 0 - ((x - ((windowWidth + sx) - pianoWidth)) + 30)
  ELSE 0

\* "Don't go offscreen left": leftPosition in right-to-left mode; the test
\* is made on xy.x + borderBBox.width - pianoWidth_
noteLeftRTL(x, bw, sx, pianoWidth) ==
  IF ((x + bw) - pianoWidth) < sx
  THEN sx - ((x + bw) - pianoWidth)
  ELSE bw - pianoWidth

\* topPosition and leftPosition of FieldNote.showEditor_.  On a mobile device
\* the piano is docked to the bottom of the viewport; the WidgetDiv sits at
\* the anchor's xy, so its offsetLeft and offsetTop are g.x and g.y.
notePlacement(mob, g, windowWidth, pianoWidth, keyHeight) ==
  LET pianoHeight == pianoHeightOf(keyHeight, g.mh)
  IN IF mob
     THEN [top |-> ((g.wh - (keyHeight + MobileLabelHeight + MobilePrevNextHeight))
                      - g.y) - g.bh,
           left |-> 0 - g.x]
     ELSE [top |-> IF noteFlips(g.y, pianoHeight, g.bh, g.wh, g.sy)
                   THEN noteTopFlipped(pianoHeight, g.bh) ELSE 0,
           left |-> IF g.rtl THEN noteLeftRTL(g.x, g.bw, g.sx, pianoWidth)
                    ELSE noteLeftLTR(g.x, windowWidth, g.sx, pianoWidth)]

\* 'Flip menu vertically if off the bottom'
gridFlips(y, oh, bh, wh, sy) == y + oh + bh >= wh + sy

\* faulty variant: the menu covers the anchor
gridBelowAtAnchor(y, bh) == y

\* 'xy.y += borderBBox.height'
gridBelow(y, bh) == y + bh

\* 'xy.y -= paddingContainerSize.height + 2'
gridAbove(y, oh) == y - (oh + 2)

\* faulty variant: the menu is never moved
gridXLTRUnclamped(x, windowWidth, sx, ow) == x - CHECKMARK_OVERHANG

\* "Don't go offscreen right": xy.x in left-to-right mode
gridXLTR(x, windowWidth, sx, ow) ==
  IF (x - CHECKMARK_OVERHANG) > (windowWidth + sx) - ow
  THEN (windowWidth + sx) - ow
  ELSE x - CHECKMARK_OVERHANG

\* "Don't go offscreen left": xy.x in right-to-left mode
gridXRTL(x, bw, sx, ow) ==
  IF ((x + bw) + CHECKMARK_OVERHANG) < sx + ow
  THEN sx + ow
  ELSE (x + bw) + CHECKMARK_OVERHANG

\* the xy FieldGridPicker.showEditor_ hands to Blockly.WidgetDiv.position
gridPlacement(g, windowWidth) ==
  [x |-> IF g.rtl THEN gridXRTL(g.x, g.bw, g.sx, g.mw)
         ELSE gridXLTR(g.x, windowWidth, g.sx, g.mw),
   y |-> IF gridFlips(g.y, g.mh, g.bh, g.wh, g.sy)
         THEN gridAbove(g.y, g.mh) ELSE gridBelow(g.y, g.bh)]

(***************************************************************************)
(* Blockly.FieldNote: operations.                                          *)
(***************************************************************************)
NoteInit ==
  /\ _frequency = 0
  /\ _mute = FALSE
  /\ _context = FALSE
  /\ _vco = FALSE
  /\ gain = 0
  /\ audioEnv \in {"ok", "noContext", "nodeFail"}
  /\ nKeys_ = pianoSizeMedium
  /\ noteFreq_ = << >>
  /\ noteName_ = << >>
  /\ note_ \in InitialNotes
  /\ text_ = HzText(note_)
  /\ soundingKeys_ = 0
  /\ keyWidth_ = DefaultKeyWidth
  /\ keyHeight_ = DefaultKeyHeight
  /\ whiteKeyCounter_ = 0
  /\ pianoWidth_ = 0
  /\ sourceBlock_ = "unset"
  /\ piano = 0
  /\ domKeys = 0
  /\ listenKeys = 0
  /\ keyTag = << >>
  /\ keyBg = << >>
  /\ keyVisible = << >>
  /\ currentSelectedKey = -1
  /\ previousColor = "undefined"
  /\ pagination = FALSE
  /\ mobile = FALSE
  /\ navButtons = FALSE
  /\ Npages_1 = 0
  /\ currentPage_1 = 0
  /\ labelText = ""
  /\ htmlInputValue = NoText
  /\ widgetOwner = "none"
  /\ eventGroup = 0
  /\ lastChange = NoChange
  /\ timers = {}
  /\ userAgentMobile \in BOOLEAN
  /\ session = 0
  /\ actSeq = 0
  /\ nextRun = -1
  /\ geo = NoGeo
  /\ topPosition = 0
  /\ leftPosition = 0
  /\ validator_ \in Validators
  /\ candidate = NoCandidate

\* setNumberOfKeys(size): sizes other than 12, 36 and 60 are ignored
setNumberOfKeys(size) ==
  /\ sourceBlock_ # "disposed"
  /\ nKeys_' = IF size \in PianoSizes THEN size ELSE nKeys_
  /\ UNCHANGED <<audioVars, noteFreq_, noteName_, note_, text_, soundingKeys_,
                 keyWidth_, keyHeight_, whiteKeyCounter_, pianoWidth_, sourceBlock_,
                 keyVars, pageVars, htmlInputValue, globalVars, timers, histVars>>

\* init(): the field is installed on its block; the note arrays are rebuilt
\* for the current nKeys_ and the value is set to itself
init ==
  /\ sourceBlock_ # "disposed"
  /\ session = 0
  /\ LET arrays == createNotesArray_(nKeys_, << >>, << >>)
         r == setValue(note_, note_, text_, TRUE, eventGroup, lastChange,
                       nKeys_, arrays.names, arrays.freqs)
     IN /\ noteName_' = arrays.names
        /\ noteFreq_' = arrays.freqs
        /\ note_' = r.note
        /\ text_' = r.text
        /\ lastChange' = r.ev
  /\ whiteKeyCounter_' = 0
  /\ sourceBlock_' = "block"
  /\ UNCHANGED <<audioVars, nKeys_, soundingKeys_, keyWidth_, keyHeight_, pianoWidth_,
                 keyVars, pageVars, htmlInputValue, widgetOwner, eventGroup,
                 userAgentMobile, timers, histVars>>


\* the host calls setValue(c) on the field
HostSetValue(c) ==
  /\ LET r == setValueOf(c, note_, text_, sourceBlock_ = "block", eventGroup,
                         lastChange, nKeys_, noteName_, noteFreq_)
     IN /\ note_' = r.note
        /\ text_' = r.text
        /\ lastChange' = r.ev
  /\ candidate' = c
  /\ UNCHANGED <<audioVars, nKeys_, noteFreq_, noteName_, soundingKeys_, keyWidth_,
                 keyHeight_, whiteKeyCounter_, pianoWidth_, sourceBlock_, keyVars,
                 pageVars, htmlInputValue, widgetOwner, eventGroup, userAgentMobile,
                 timers, histVars, validator_>>


\* 'Math.abs(this.noteFreq_[i] - Number(this.getValue())) < this.eps_'
Matches(freq, note) == Abs(freq - note) < eps_

\* the keys of noteFreq_ within eps_ of the value (0-based)
Matching(n, freqs, note) == {i \in 0..(n - 1) : Matches(freqs[i + 1], note)}

\* faulty variant: one page more than the keys fill
PageCountOneMore(nk) == (nk \div 12) + 1

\* 'var Npages_1 = this.nKeys_ / 12'
PageCount(nk) == nk \div 12

\* faulty variant: the piano is never too wide
TooWideNever(editorWidth, pianoWidth) == FALSE

\* 'if (editorWidth < this.pianoWidth_)'
TooWide(editorWidth, pianoWidth) == editorWidth < pianoWidth

\* faulty variant: the first key of the second octave stays visible
HiddenAtOpenOffByOne(pag, i) == pag /\ i > 12

\* 'set octaves different from first octave invisible'
HiddenAtOpen(pag, i) == pag /\ i > 11

\* showEditor_(opt_quietInput) with the editor and viewport widths and the
\* measurement g the DOM reports.  The key loop raises a TypeError at the first key that has no
\* entry in noteFreq_ (nKeys_ changed since init): that key is rendered
\* without listeners and nothing after the loop runs.
showEditor_(opt_quietInput, editorWidth, windowWidth, g) ==
  /\ sourceBlock_ = "block"
  /\ session < MaxOpens
  /\ LET pw0 == keyWidth_ * (nKeys_ - ((nKeys_ \div 12) * 5))
         pag0 == TooWide(editorWidth, pw0)
         mob == (~opt_quietInput) /\ userAgentMobile
         kw == IF mob THEN CeilDiv(windowWidth, 7) ELSE keyWidth_
         \* r = keyWidth_ / keyHeight_; keyHeight_ = ceil(keyWidth_ / r)
         kh == IF mob THEN CeilDiv(kw * keyHeight_, keyWidth_) ELSE keyHeight_
     IN \E pag \in {pag0 \/ mob}, n \in {Min(nKeys_, Len(noteFreq_))} :
        \E hits \in {Matching(n, noteFreq_, note_)} :
        LET raised == n < nKeys_
            dom == IF raised THEN n + 1 ELSE n
            lastHit == CHOOSE i \in hits : \A j \in hits : j <= i
        IN
        /\ text_' = getText(note_)
        /\ htmlInputValue' = getText(note_)
        /\ widgetOwner' = "note"
        /\ soundingKeys_' = 0
        /\ pianoWidth_' = IF pag THEN 7 * kw ELSE pw0
        /\ keyWidth_' = kw
        /\ keyHeight_' = kh
        /\ piano' = nKeys_
        /\ pagination' = pag
        /\ mobile' = mob
        /\ eventGroup' = setGroup(eventGroup, session + 1)
        /\ domKeys' = dom
        /\ listenKeys' = n
        /\ keyTag' = [i \in 0..(dom - 1) |-> IF i < n THEN noteFreq_[i + 1] ELSE 0]
        /\ keyBg' = [i \in 0..(dom - 1) |->
                       IF i \in hits THEN selectedKeyColor_ ELSE getBgColor_(i)]
        /\ keyVisible' = [i \in 0..(dom - 1) |-> ~(i < n /\ HiddenAtOpen(pag, i))]
        /\ currentSelectedKey' = IF hits = {} THEN -1 ELSE lastHit
        /\ previousColor' = IF hits = {} THEN "undefined" ELSE getBgColor_(lastHit)
        /\ whiteKeyCounter_' = Cardinality({i \in 0..(n - 1) : isWhite_(i)})
        /\ navButtons' = (pag /\ ~raised)
        /\ Npages_1' = IF pag /\ ~raised THEN PageCount(nKeys_) ELSE 0
        /\ currentPage_1' = 0
        /\ labelText' = IF raised THEN "" ELSE IF pag THEN "Octave #1" ELSE "-"
        /\ nextRun' = IF pag /\ ~raised THEN 0 ELSE -1
        /\ \E pw \in {IF pag THEN 7 * kw ELSE pw0} :
             \E at \in {notePlacement(mob, g, windowWidth, pw, kh)} :
               /\ topPosition' = at.top
               /\ leftPosition' = at.left
               /\ geo' = Snapshot(g, windowWidth, pw, pianoHeightOf(kh, g.mh))
  /\ session' = session + 1
  /\ UNCHANGED <<audioVars, nKeys_, noteFreq_, noteName_, note_, sourceBlock_,
                 lastChange, userAgentMobile, timers, actSeq>>

\* faulty variant: the callback stops the tone whatever the counter says
TimerStopsUnguarded(t) == TRUE

\* the stop-after-idle callback handed to setTimeout by activation cnt stops
\* the tone only if the counter still has the value the activation gave it
TimerStops(t) == soundingKeys_ = t.cnt

\* faulty variant: the previously selected key keeps its highlight
RestoreSkipped(bg, selected, colour) == bg

\* faulty variant: the key selected so far keeps the highlight colour
RestoreNothing(bg, selected, colour) == bg

\* the key selected so far, if any, gets previousColor back
RestorePrevious(bg, selected, colour) ==
  IF selected # -1 THEN [bg EXCEPT ![selected] = colour] ELSE bg

\* MOUSEDOWN listener of key k
KeyPress(k) ==
  /\ widgetOwner = "note"
  /\ k \in 0..(listenKeys - 1)
  /\ keyVisible[k]
  /\ LET a0 == stop(AudioState)
         cnt == soundingKeys_ + 1
         freq == keyTag[k]
         bg1 == RestorePrevious(keyBg, currentSelectedKey, previousColor)
         r == setValue(freq, note_, text_, sourceBlock_ = "block", eventGroup,
                       lastChange, nKeys_, noteName_, noteFreq_)
     IN /\ soundingKeys_' = cnt
        /\ previousColor' = IF currentSelectedKey # k THEN bg1[k] ELSE previousColor
        /\ currentSelectedKey' = k
        /\ keyBg' = [bg1 EXCEPT ![k] = selectedKeyColor_]
        /\ note_' = r.note
        /\ text_' = r.text
        /\ lastChange' = r.ev
        /\ htmlInputValue' = getText(r.note)
        /\ SetAudio(tone(a0, freq, 1))
        /\ timers' = timers \cup {[cnt |-> cnt, key |-> k, act |-> actSeq + 1,
                                     session |-> session]}
  /\ actSeq' = actSeq + 1
  /\ UNCHANGED <<nKeys_, noteFreq_, noteName_, keyWidth_, keyHeight_, whiteKeyCounter_,
                 pianoWidth_, sourceBlock_, piano, domKeys, listenKeys, keyTag,
                 keyVisible, pageVars, widgetOwner, eventGroup, userAgentMobile,
                 session, nextRun>>

\* the activations of keys that are explored
KeyMouseDown(k) == actSeq < MaxActivations /\ KeyPress(k)

\* the callback of timer t runs 500 ms after its activation; callbacks of
\* equal delay run in the order they were scheduled
TimerFire(t) ==
  /\ t \in timers
  /\ \A u \in timers : t.act <= u.act
  /\ timers' = timers \ {t}
  /\ SetAudio(IF TimerStops(t) THEN stop(AudioState) ELSE AudioState)
  /\ UNCHANGED <<fieldVars, keyVars, pageVars, htmlInputValue, globalVars, histVars>>

\* the twelve keys starting at key first
Octave(first) == first..(first + 11)

\* the guards of the previous and next listeners
AtFirstPage(page) == page = 0

\* faulty variant: the next listener compares with the page count
AtLastPageOffByOne(page, n) == page = n

AtLastPage(page, n) == page = n - 1

\* MOUSEDOWN listener of the previous button
PrevMouseDown ==
  /\ widgetOwner = "note"
  /\ navButtons
  /\ IF AtFirstPage(currentPage_1)
     THEN /\ labelText' = "Octave #1"
          /\ UNCHANGED <<currentPage_1, keyVisible>>
     ELSE \E curFirstKey \in {currentPage_1 * 12},
             newFirstKey \in {(currentPage_1 * 12) - 12} :
             /\ keyVisible' = [i \in DOMAIN keyVisible |->
                                 IF i \in Octave(newFirstKey) THEN TRUE
                                 ELSE IF i \in Octave(curFirstKey) THEN FALSE
                                 ELSE keyVisible[i]]
             /\ currentPage_1' = currentPage_1 - 1
             /\ labelText' = "Octave #" \o ToString(currentPage_1)
  /\ nextRun' = -1
  /\ UNCHANGED <<audioVars, fieldVars, piano, domKeys, listenKeys, keyTag, keyBg,
                 currentSelectedKey, previousColor, pagination, mobile, navButtons,
                 Npages_1, htmlInputValue, globalVars, timers, session, actSeq>>

\* MOUSEDOWN listener of the next button
NextMouseDown ==
  /\ widgetOwner = "note"
  /\ navButtons
  /\ IF AtLastPage(currentPage_1, Npages_1)
     THEN /\ labelText' = "Octave #" \o ToString(currentPage_1 + 1)
          /\ UNCHANGED <<currentPage_1, keyVisible>>
     ELSE \E curFirstKey \in {currentPage_1 * 12},
             newFirstKey \in {(currentPage_1 * 12) + 12} :
             /\ keyVisible' = [i \in DOMAIN keyVisible |->
                                 IF i \in Octave(newFirstKey) THEN TRUE
                                 ELSE IF i \in Octave(curFirstKey) THEN FALSE
                                 ELSE keyVisible[i]]
             /\ currentPage_1' = currentPage_1 + 1
             /\ labelText' = "Octave #" \o ToString(currentPage_1 + 2)
  /\ nextRun' = IF nextRun = -1 THEN -1 ELSE Min(nextRun + 1, Npages_1)
  /\ UNCHANGED <<audioVars, fieldVars, piano, domKeys, listenKeys, keyTag, keyBg,
                 currentSelectedKey, previousColor, pagination, mobile, navButtons,
                 Npages_1, htmlInputValue, globalVars, timers, session, actSeq>>


\* faulty variant: hovering a key selects it
KeyMouseOverSelects(k) ==
  /\ widgetOwner = "note"
  /\ k \in 0..(listenKeys - 1)
  /\ keyVisible[k]
  /\ labelText # ""
  /\ k + 1 <= Len(noteName_)
  /\ labelText' = noteName_[k + 1]
  /\ currentSelectedKey' = k
  /\ UNCHANGED <<audioVars, fieldVars, piano, domKeys, listenKeys, keyTag, keyBg,
                 keyVisible, previousColor, pagination, mobile, navButtons,
                 Npages_1, currentPage_1, htmlInputValue, globalVars, timers, histVars>>

\* MOUSEOVER listener of key k: the label shows the key's id, which is
\* noteName_[k] as it was when the editor opened.  Without a label (the key
\* loop raised) the listener raises and changes nothing.
KeyMouseOver(k) ==
  /\ widgetOwner = "note"
  /\ k \in 0..(listenKeys - 1)
  /\ keyVisible[k]
  /\ labelText # ""
  /\ k + 1 <= Len(noteName_)
  /\ labelText' = noteName_[k + 1]
  /\ UNCHANGED <<audioVars, fieldVars, keyVars, pagination, mobile, navButtons,
                 Npages_1, currentPage_1, htmlInputValue, globalVars, timers, histVars>>

\* Blockly.WidgetDiv.hide() while the Note Picker owns the overlay: the DOM
\* of the editor is removed and the dispose callback of the inherited text
\* editor runs, which sets the text from the input's value (for a number,
\* the note name) and closes the event group.
NoteEditorDisposed ==
  /\ text_' = getNoteName_(note_, nKeys_, noteName_, noteFreq_)
  /\ EditorGone

NoteWidgetHide ==
  /\ widgetOwner' = "none"
  /\ eventGroup' = 0
  /\ NoteEditorDisposed

\* the user dismisses the open Note Picker
NoteDismiss ==
  /\ widgetOwner = "note"
  /\ NoteWidgetHide
  /\ UNCHANGED <<audioVars, nKeys_, noteFreq_, noteName_, note_, soundingKeys_,
                 keyWidth_, keyHeight_, whiteKeyCounter_, pianoWidth_, sourceBlock_,
                 lastChange, userAgentMobile, timers, session, actSeq>>

\* faulty variant: the overlay is left open
hideIfOwnerNever(owner, field) == FALSE

\* Blockly.WidgetDiv.hideIfOwner(this): hides the overlay if the field owns it
hideIfOwner(owner, field) == owner = field

\* FieldNote.prototype.dispose: hideIfOwner(this), then the inherited
\* dispose, which detaches the field from its block
NoteDispose ==
  /\ sourceBlock_ = "block"
  /\ IF hideIfOwner(widgetOwner, "note")
     THEN NoteWidgetHide
     ELSE UNCHANGED <<widgetOwner, eventGroup, text_, keyVars, pageVars,
                      htmlInputValue, nextRun>>
  /\ sourceBlock_' = "disposed"
  /\ UNCHANGED <<audioVars, nKeys_, noteFreq_, noteName_, note_, soundingKeys_,
                 keyWidth_, keyHeight_, whiteKeyCounter_, pianoWidth_,
                 lastChange, userAgentMobile, timers, session, actSeq>>

(***************************************************************************)
(* pxtblocky.FieldGridPicker.                                              *)
(***************************************************************************)
\* defaults of the constructor: parseInt(params.x) || default
DefaultColumns == 4
DefaultWidth == 400

\* inputs of the environment
GridColumns == {2, DefaultColumns}
GridMaxRows == {0, 1}
GridWindowWidths == {300, 700}

\* faulty variant: only the full rows are built
RowCountFullRows(n, c) == n \div c

\* the rows built by 'for (i = 0; i < options.length / columns_; i++)'
RowCount(n, c) == Cardinality({i \in 0..n : i * c < n})

\* createRow(row, options): the values of the menu items of one row
createRow(row, n, c) ==
  [j \in 1..(Min((c * row) + c, n) - (c * row)) |-> (c * row) + j]

\* the option values shown by the open grid
GridItems == UNION {{gridRows[r][j] : j \in 1..Len(gridRows[r])} : r \in 1..Len(gridRows)}

\* faulty variant: the list is dropped without disposing its tooltips
disposeTooltipsDropsList(tips, disposed) == [tips |-> << >>, disposed |-> disposed]

\* disposeTooltips(): every tooltip of the list is disposed and the list is
\* replaced by an empty one; nothing happens on an empty list
disposeTooltips(tips, disposed) ==
  IF Len(tips) > 0
  THEN [tips |-> << >>,
        disposed |-> [id \in 1..Len(disposed) |->
                        IF \E x \in 1..Len(tips) : tips[x] = id
                        THEN disposed[id] + 1 ELSE disposed[id]]]
  ELSE [tips |-> tips, disposed |-> disposed]

GridInit ==
  /\ options \in 1..MaxOptions
  /\ columns_ \in GridColumns
  /\ maxRows_ \in GridMaxRows
  /\ width_ = DefaultWidth
  /\ value_ \in {0, 1}
  /\ tooltips_ = << >>
  /\ tipDisposed = << >>
  /\ gridRows = << >>
  /\ overflowY = ""
  /\ scrolledItem = 0
  /\ gridPositioned = FALSE
  /\ gridSourceBlock_ = "block"
  /\ gridOpens = 0
  /\ gridDisposeCalls = 0
  /\ gridXY = [x |-> 0, y |-> 0]

\* the DOM of the grid is removed from the WidgetDiv
GridDomGone ==
  /\ gridRows' = << >>
  /\ overflowY' = ""
  /\ scrolledItem' = 0
  /\ gridPositioned' = FALSE

\* faulty variant: the configured width is fitted to the viewport anew
resizeWidthOfConfigured(w, windowWidth) ==
  IF DefaultWidth > windowWidth THEN windowWidth ELSE DefaultWidth

\* 'if (this.width_ > windowSize.width) { this.width_ = windowSize.width; }'
resizeWidth(w, windowWidth) ==
  IF w > windowWidth THEN windowWidth ELSE w

\* faulty variant: the row limit is applied when none is configured, too
heightLimitedAlways(maxRows, rows) == rows > maxRows

\* 'if (this.maxRows_ > 0) { ... if (scrollContainerSize.height > maxHeight)':
\* the content of rows rows of one height is higher than maxRows + 0.3 rows
heightLimited(maxRows, rows) == maxRows > 0 /\ rows > maxRows

\* showEditor_() with the viewport width and the measurement g the DOM
\* reports.  Blockly.WidgetDiv.show comes first, which hides the overlay of
\* whatever editor is open.  With a row limit
\* that the content exceeds, the selected item is looked up cell by cell,
\* columns_ cells per row: a cell missing from the last row raises a
\* TypeError unless the selected item was found before it.
gridShowEditor_(windowWidth, g) ==
  /\ gridSourceBlock_ = "block"
  /\ gridOpens < MaxGridOpens
  /\ LET d == disposeTooltips(tooltips_, tipDisposed)
         rows == RowCount(options, columns_)
         first == Len(tipDisposed)
         limited == heightLimited(maxRows_, rows)
         found == value_ \in 1..options
         raised == limited /\ ~found /\ (options % columns_) # 0
     IN /\ widgetOwner' = "grid"
        /\ gridRows' = [r \in 1..rows |-> createRow(r - 1, options, columns_)]
        /\ width_' = resizeWidth(width_, windowWidth)
        /\ tooltips_' = d.tips \o [i \in 1..options |-> first + i]
        /\ tipDisposed' = d.disposed \o [i \in 1..options |-> 0]
        /\ overflowY' = IF limited THEN "auto" ELSE ""
        /\ scrolledItem' = IF limited /\ found THEN value_ ELSE 0
        /\ gridPositioned' = ~raised
        /\ gridXY' = IF raised THEN gridXY ELSE gridPlacement(g, windowWidth)
        /\ geo' = Snapshot(g, windowWidth, g.mw, g.mh)
  /\ gridOpens' = gridOpens + 1
  /\ UNCHANGED <<options, columns_, maxRows_, value_, gridSourceBlock_, gridDisposeCalls,
                 lastChange, userAgentMobile>>

\* the ACTION callback of a row: the item's value becomes the field's value,
\* the overlay is hidden, the event group is closed, the tooltips disposed
gridCallback(item) ==
  /\ widgetOwner = "grid"
  /\ item \in GridItems
  /\ LET d == disposeTooltips(tooltips_, tipDisposed)
     IN /\ tooltips_' = d.tips
        /\ tipDisposed' = d.disposed
  /\ value_' = item
  /\ lastChange' = IF value_ # item
                   THEN [old |-> value_, new |-> item, group |-> eventGroup]
                   ELSE lastChange
  /\ widgetOwner' = "none"
  /\ eventGroup' = 0
  /\ GridDomGone
  /\ UNCHANGED <<options, columns_, maxRows_, width_, gridSourceBlock_, gridOpens,
                 gridDisposeCalls, userAgentMobile>>

\* the user dismisses the open grid: Blockly.WidgetDiv.hide() with the null
\* dispose callback showEditor_ registered
GridDismiss ==
  /\ widgetOwner = "grid"
  /\ widgetOwner' = "none"
  /\ GridDomGone
  /\ UNCHANGED <<options, columns_, maxRows_, width_, value_, tooltips_, tipDisposed,
                 gridSourceBlock_, gridOpens, gridDisposeCalls, eventGroup, lastChange,
                 userAgentMobile>>

\* dispose(): the inherited dispose (hideIfOwner, detach from the block),
\* then disposeTooltips()
gridDispose ==
  /\ gridDisposeCalls < MaxDisposeCalls
  /\ IF widgetOwner = "grid"
     THEN widgetOwner' = "none" /\ GridDomGone
     ELSE UNCHANGED <<widgetOwner, gridRows, overflowY, scrolledItem, gridPositioned>>
  /\ gridSourceBlock_' = "disposed"
  /\ LET d == disposeTooltips(tooltips_, tipDisposed)
     IN /\ tooltips_' = d.tips
        /\ tipDisposed' = d.disposed
  /\ gridDisposeCalls' = gridDisposeCalls + 1
  /\ UNCHANGED <<options, columns_, maxRows_, width_, value_, gridOpens, eventGroup,
                 lastChange, userAgentMobile>>

(***************************************************************************)
(* Blockly.FieldTextInputRemovable: the text input with a remove icon.     *)
(***************************************************************************)
TxtInit ==
  /\ removeButton = FALSE
  /\ removeButtonMouseWrapper_ = FALSE
  /\ removeFieldCallback \in BOOLEAN
  /\ removeOutcome = "none"

\* showEditor_(): the inherited text editor takes the WidgetDiv, then the
\* remove icon is rendered and its mousedown listener bound
textShowEditor_ ==
  /\ widgetOwner' = "text"
  /\ removeButton' = TRUE
  /\ removeButtonMouseWrapper_' = TRUE
  /\ UNCHANGED <<removeFieldCallback, removeOutcome>>

\* removeCallback_(): mousedown on the remove icon
removeCallback_ ==
  /\ widgetOwner = "text"
  /\ removeButton
  /\ removeButtonMouseWrapper_
  /\ removeOutcome' = IF removeFieldCallback THEN "called" ELSE "warned"
  /\ UNCHANGED <<removeButton, removeButtonMouseWrapper_, removeFieldCallback,
                 widgetOwner, eventGroup>>

\* the DOM of the text editor is removed from the WidgetDiv; nothing unbinds
\* the listener of the remove icon
TextEditorDisposed ==
  /\ removeButton' = FALSE
  /\ UNCHANGED <<removeButtonMouseWrapper_, removeFieldCallback, removeOutcome>>

\* the user dismisses the open text editor: Blockly.WidgetDiv.hide() runs the
\* dispose callback of the inherited text editor, which closes the event group
TextDismiss ==
  /\ widgetOwner = "text"
  /\ widgetOwner' = "none"
  /\ eventGroup' = 0
  /\ TextEditorDisposed

(***************************************************************************)
(* Blockly.FlyoutButton.                                                   *)
(***************************************************************************)
\* Blockly.FlyoutButton.MARGIN
MARGIN == 40
\* clicks on the button that are explored
MaxClicks == 2

\* inputs of the environment: measured widths of the text and of the icon
TextWidths == {30, 50}
IconWidths == {20}
CallbackKeys == {"none", "registered", "unregistered"}

\* targetWorkspace.getButtonCallback(key): set only for a registered key
getButtonCallback(key) == key = "registered"

\* faulty variant: whatever is registered under the key becomes the callback
ConstructorTakesAnyCallback(isLabel, key) ==
  [callback |-> getButtonCallback(key), warned |-> isLabel /\ key # "none"]

\* the constructor's choice of callback_: a label with a callback key and a
\* button without a registered one get a warning and no callback
Constructor(isLabel, key) ==
  IF isLabel /\ key # "none"
  THEN [callback |-> FALSE, warned |-> TRUE]
  ELSE IF (~isLabel) /\ ~(key # "none" /\ getButtonCallback(key))
  THEN [callback |-> FALSE, warned |-> TRUE]
  ELSE [callback |-> getButtonCallback(key), warned |-> FALSE]

BtnInit ==
  /\ isLabel_ \in BOOLEAN
  /\ callbackKey \in CallbackKeys
  /\ callback_ = Constructor(isLabel_, callbackKey).callback
  /\ warned = Constructor(isLabel_, callbackKey).warned
  /\ icon_ \in BOOLEAN
  /\ textWidth \in TextWidths
  /\ width = 0
  /\ svgGroup_ = FALSE
  /\ mouseUpWrapper_ = FALSE
  /\ onMouseUpWrapper_ = FALSE
  /\ mouseUpBound = FALSE
  /\ workspace_ = TRUE
  /\ callbackCalls = 0
  /\ btnDisposeCalls = 0

\* faulty variant: a button gets the margin on one side only
buttonMarginsOneSide(isLabel) == IF ~isLabel THEN MARGIN ELSE 0

\* 'if (!this.isLabel_) { this.width += 2 * Blockly.FlyoutButton.MARGIN; ...'
buttonMargins(isLabel) == IF ~isLabel THEN 2 * MARGIN ELSE 0

\* createDom(): the width is the text's, plus icon and margins when an icon
\* is configured, plus margins for a button; the mouseup listener is bound
\* and its bind data stored in mouseUpWrapper_
createDom ==
  /\ workspace_
  /\ ~svgGroup_
  /\ ~mouseUpBound
  /\ svgGroup_' = TRUE
  /\ \E iconWidth \in IconWidths :
       width' = textWidth
                + (IF icon_ THEN iconWidth + (2 * MARGIN) ELSE 0)
                + buttonMargins(isLabel_)
  /\ mouseUpWrapper_' = TRUE
  /\ mouseUpBound' = TRUE
  /\ UNCHANGED <<isLabel_, callbackKey, callback_, warned, icon_, textWidth,
                 onMouseUpWrapper_, workspace_, callbackCalls, btnDisposeCalls>>

\* onMouseUp_(e): the bound listener runs on a mouseup over the SVG group
onMouseUp_ ==
  /\ mouseUpBound
  /\ svgGroup_
  /\ callbackCalls < MaxClicks
  /\ callbackCalls' = IF callback_ THEN callbackCalls + 1 ELSE callbackCalls
  /\ UNCHANGED <<isLabel_, callbackKey, callback_, warned, icon_, textWidth, width,
                 svgGroup_, mouseUpWrapper_, onMouseUpWrapper_, mouseUpBound, workspace_,
                 btnDisposeCalls>>

\* the wrapper dispose() hands to Blockly.unbindEvent_, if it finds one
DisposeUnbinds == onMouseUpWrapper_

\* dispose(): unbinds the listener whose bind data onMouseUpWrapper_ holds,
\* removes the SVG group and clears the workspace references
flyoutDispose ==
  /\ btnDisposeCalls < MaxDisposeCalls
  /\ mouseUpBound' = IF DisposeUnbinds THEN FALSE ELSE mouseUpBound
  /\ svgGroup_' = FALSE
  /\ workspace_' = FALSE
  /\ btnDisposeCalls' = btnDisposeCalls + 1
  /\ UNCHANGED <<isLabel_, callbackKey, callback_, warned, icon_, textWidth, width,
                 mouseUpWrapper_, onMouseUpWrapper_, callbackCalls>>

(***************************************************************************)
(* Specifications.  Each one runs one component; the other components stay *)
(* as constructed.                                                         *)
(***************************************************************************)
NoteIdle ==
  /\ NoteInit
  /\ audioEnv = "ok"
  /\ ~userAgentMobile
  /\ note_ = 300000
  /\ validator_ = "none"

GridIdle ==
  /\ GridInit
  /\ options = 1
  /\ columns_ = DefaultColumns
  /\ maxRows_ = 0
  /\ value_ = 1

BtnIdle ==
  /\ BtnInit
  /\ isLabel_
  /\ callbackKey = "none"
  /\ ~icon_
  /\ textWidth = 30

TxtIdle ==
  /\ TxtInit
  /\ ~removeFieldCallback

\* the Note Picker, with the tone service available; the host configures
\* the number of keys before it installs the field on its block
Init == NoteInit /\ audioEnv = "ok" /\ validator_ = "none" /\ GridIdle /\ BtnIdle /\ TxtIdle

NoteFrame == UNCHANGED <<gridVars, btnVars, txtVars, hostVars, placeVars>>

NoteOpenFrame == UNCHANGED <<gridVars, btnVars, txtVars, hostVars, gridXY>>

Next ==
  \/ (\E size \in SizeArgs : sourceBlock_ = "unset" /\ setNumberOfKeys(size))
       /\ NoteFrame
  \/ init /\ NoteFrame
  \/ (\E q \in BOOLEAN, ew \in EditorWidths, ww \in WindowWidths :
        showEditor_(q, ew, ww, PlainMeasurement)) /\ NoteOpenFrame
  \/ (\E k \in PressKeys : KeyMouseDown(k)) /\ NoteFrame
  \/ (\E k \in HoverKeys : KeyMouseOver(k)) /\ NoteFrame
  \/ (\E t \in timers : TimerFire(t)) /\ NoteFrame
  \/ PrevMouseDown /\ NoteFrame
  \/ NextMouseDown /\ NoteFrame
  \/ NoteDismiss /\ NoteFrame
  \/ NoteDispose /\ NoteFrame

Spec == Init /\ [][Next]_vars

\* the Grid Picker
GridSpecInit == NoteIdle /\ GridInit /\ BtnIdle /\ TxtIdle

GridFrame == UNCHANGED <<noteVars, btnVars, txtVars, hostVars, placeVars>>

GridOpenFrame ==
  UNCHANGED <<noteVars, btnVars, txtVars, hostVars, topPosition, leftPosition,
              eventGroup>>

GridNext ==
  \/ (\E ww \in GridWindowWidths : gridShowEditor_(ww, PlainMeasurement))
       /\ GridOpenFrame
  \/ (\E item \in 1..MaxOptions : gridCallback(item)) /\ GridFrame
  \/ GridDismiss /\ GridFrame
  \/ gridDispose /\ GridFrame

GridSpec == GridSpecInit /\ [][GridNext]_vars

\* the toolbox button or label
ButtonSpecInit == NoteIdle /\ GridIdle /\ BtnInit /\ TxtIdle

ButtonFrame ==
  UNCHANGED <<noteVars, globalVars, gridVars, txtVars, hostVars, placeVars>>

ButtonNext ==
  \/ createDom /\ ButtonFrame
  \/ onMouseUp_ /\ ButtonFrame
  \/ flyoutDispose /\ ButtonFrame

ButtonSpec == ButtonSpecInit /\ [][ButtonNext]_vars

(***************************************************************************)
(* The three editors that share Blockly.WidgetDiv.  WidgetDiv.show(owner,  *)
(* rtl, dispose) first hides the overlay of the editor that is open: its   *)
(* DOM is removed and the dispose callback its show registered runs.  The  *)
(* text editors register one that closes the event group, the Grid Picker  *)
(* registers null.                                                         *)
(***************************************************************************)
\* what WidgetDiv.show does to the Note Picker when another editor opens
NoteHiddenOrKept ==
  IF widgetOwner = "note"
  THEN /\ NoteEditorDisposed
       /\ UNCHANGED <<audioVars, nKeys_, noteFreq_, noteName_, note_, soundingKeys_,
                      keyWidth_, keyHeight_, whiteKeyCounter_, pianoWidth_,
                      sourceBlock_, timers, session, actSeq>>
  ELSE UNCHANGED noteVars

\* what WidgetDiv.show does to the Grid Picker when another editor opens
GridHiddenOrKept ==
  IF widgetOwner = "grid"
  THEN /\ GridDomGone
       /\ UNCHANGED <<options, columns_, maxRows_, width_, value_, tooltips_,
                      tipDisposed, gridSourceBlock_, gridOpens, gridDisposeCalls>>
  ELSE UNCHANGED gridVars

\* what WidgetDiv.show does to the text input when another editor opens
TextHiddenOrKept ==
  IF widgetOwner = "text" THEN TextEditorDisposed ELSE UNCHANGED txtVars

\* the event group after WidgetDiv.show hid the previous overlay
GroupAfterHide == IF widgetOwner \in {"note", "text"} THEN 0 ELSE eventGroup

\* the editor is wide enough for the whole piano
NoteOpens ==
  /\ \E q \in BOOLEAN, ew \in {1000}, ww \in WindowWidths :
       showEditor_(q, ew, ww, PlainMeasurement)
  /\ GridHiddenOrKept
  /\ TextHiddenOrKept
  /\ UNCHANGED <<gridXY, btnVars, hostVars>>

GridOpens ==
  /\ \E ww \in WindowWidths : gridShowEditor_(ww, PlainMeasurement)
  /\ eventGroup' = GroupAfterHide
  /\ NoteHiddenOrKept
  /\ TextHiddenOrKept
  /\ UNCHANGED <<topPosition, leftPosition, btnVars, hostVars>>

TextOpens ==
  /\ textShowEditor_
  /\ eventGroup' = GroupAfterHide
  /\ NoteHiddenOrKept
  /\ GridHiddenOrKept
  /\ UNCHANGED <<lastChange, userAgentMobile, placeVars, btnVars, hostVars>>

OverlayInit ==
  /\ NoteInit
  /\ audioEnv = "ok"
  /\ ~userAgentMobile
  /\ note_ = 261626
  /\ validator_ = "none"
  /\ GridIdle
  /\ BtnIdle
  /\ TxtInit
  /\ removeFieldCallback

NoteOnly == UNCHANGED <<gridVars, btnVars, txtVars, hostVars, placeVars>>

GridOnly == UNCHANGED <<noteVars, btnVars, txtVars, hostVars, placeVars>>

TextOnly ==
  UNCHANGED <<noteVars, gridVars, btnVars, hostVars, placeVars, lastChange,
              userAgentMobile>>

OverlayNext ==
  \/ init /\ NoteOnly
  \/ NoteOpens
  \/ (\E k \in PressKeys : KeyMouseDown(k)) /\ NoteOnly
  \/ (\E t \in timers : TimerFire(t)) /\ NoteOnly
  \/ NoteDismiss /\ NoteOnly
  \/ NoteDispose /\ NoteOnly
  \/ GridOpens
  \/ (\E item \in 1..MaxOptions : gridCallback(item)) /\ GridOnly
  \/ GridDismiss /\ GridOnly
  \/ gridDispose /\ GridOnly
  \/ TextOpens
  \/ removeCallback_ /\ TextOnly
  \/ TextDismiss /\ TextOnly

OverlaySpec == OverlayInit /\ [][OverlayNext]_vars

(***************************************************************************)
(* The values of the two pickers: the host installs the Note Picker's      *)
(* field, sets its value, and the user picks keys and grid items.          *)
(***************************************************************************)
\* the values the host sets while the editors are in use
HostValues == {NumCand(261626), NumCand(440000)}

ValueInit ==
  /\ NoteInit
  /\ audioEnv = "ok"
  /\ ~userAgentMobile
  /\ validator_ = "none"
  /\ GridInit
  /\ options = 2
  /\ columns_ = DefaultColumns
  /\ maxRows_ = 0
  /\ BtnIdle
  /\ TxtIdle

HostOnly == UNCHANGED <<gridVars, btnVars, txtVars, placeVars>>

ValueNext ==
  \/ init /\ NoteOnly
  \/ (\E c \in HostValues : HostSetValue(c)) /\ HostOnly
  \/ NoteOpens
  \/ (\E k \in PressKeys : KeyMouseDown(k)) /\ NoteOnly
  \/ NoteDismiss /\ NoteOnly
  \/ GridOpens
  \/ (\E item \in 1..MaxOptions : gridCallback(item)) /\ GridOnly

ValueSpec == ValueInit /\ [][ValueNext]_vars

(***************************************************************************)
(* The host alone: a field constructed with or without a validator, put on *)
(* a block, and given well-formed and malformed values.                    *)
(***************************************************************************)
HostInit ==
  /\ NoteInit
  /\ audioEnv = "ok"
  /\ ~userAgentMobile
  /\ GridIdle
  /\ BtnIdle
  /\ TxtIdle

HostNext ==
  \/ init /\ NoteOnly
  \/ (\E c \in Candidates : HostSetValue(c)) /\ HostOnly

HostSpec == HostInit /\ [][HostNext]_vars

(***************************************************************************)
(* Placement: the two pickers are opened at any anchor, in any viewport,   *)
(* on a desktop or a mobile device, and dismissed.                         *)
(***************************************************************************)
PlaceInit ==
  /\ NoteInit
  /\ audioEnv = "ok"
  /\ note_ = 261626
  /\ validator_ = "none"
  /\ GridInit
  /\ options = 2
  /\ columns_ = DefaultColumns
  /\ maxRows_ = 0
  /\ value_ = 1
  /\ BtnIdle
  /\ TxtIdle

NotePlaced ==
  /\ \E g \in Measurements, ww \in WindowWidths : showEditor_(FALSE, 1000, ww, g)
  /\ GridHiddenOrKept
  /\ TextHiddenOrKept
  /\ UNCHANGED <<gridXY, btnVars, hostVars>>

GridPlaced ==
  /\ \E g \in Measurements, ww \in WindowWidths : gridShowEditor_(ww, g)
  /\ eventGroup' = GroupAfterHide
  /\ NoteHiddenOrKept
  /\ TextHiddenOrKept
  /\ UNCHANGED <<topPosition, leftPosition, btnVars, hostVars>>

PlaceNext ==
  \/ init /\ NoteOnly
  \/ NotePlaced
  \/ NoteDismiss /\ NoteOnly
  \/ GridPlaced
  \/ GridDismiss /\ GridOnly

PlaceSpec == PlaceInit /\ [][PlaceNext]_vars

(***************************************************************************)
(* Reopening: the two pickers are opened again and again at the same       *)
(* anchor while the viewport changes its width between the opens.          *)
(***************************************************************************)
ReopenWidths == {300, 700}

ReopenInit ==
  /\ NoteInit
  /\ audioEnv = "ok"
  /\ note_ = 261626
  /\ validator_ = "none"
  /\ GridInit
  /\ options = 2
  /\ columns_ = DefaultColumns
  /\ maxRows_ = 0
  /\ value_ = 1
  /\ BtnIdle
  /\ TxtIdle

NoteReopens ==
  /\ \E q \in BOOLEAN, ww \in ReopenWidths : showEditor_(q, 1000, ww, PlainMeasurement)
  /\ GridHiddenOrKept
  /\ TextHiddenOrKept
  /\ UNCHANGED <<gridXY, btnVars, hostVars>>

GridReopens ==
  /\ \E ww \in ReopenWidths : gridShowEditor_(ww, PlainMeasurement)
  /\ eventGroup' = GroupAfterHide
  /\ NoteHiddenOrKept
  /\ TextHiddenOrKept
  /\ UNCHANGED <<topPosition, leftPosition, btnVars, hostVars>>

ReopenNext ==
  \/ init /\ NoteOnly
  \/ NoteReopens
  \/ NoteDismiss /\ NoteOnly
  \/ GridReopens
  \/ GridDismiss /\ GridOnly

ReopenSpec == ReopenInit /\ [][ReopenNext]_vars

(***************************************************************************)
(* Configuration: the host sets the number of keys before and after the    *)
(* field is installed, and the pickers are opened for any options, layout  *)
(* and value.                                                              *)
(***************************************************************************)
ConfigInit ==
  /\ NoteInit
  /\ audioEnv = "ok"
  /\ ~userAgentMobile
  /\ note_ = 261626
  /\ validator_ = "none"
  /\ GridInit
  /\ columns_ = DefaultColumns
  /\ BtnIdle
  /\ TxtIdle

ConfigNext ==
  \/ (\E size \in SizeArgs : setNumberOfKeys(size)) /\ NoteOnly
  \/ init /\ NoteOnly
  \/ NoteOpens
  \/ NoteDismiss /\ NoteOnly
  \/ GridOpens
  \/ GridDismiss /\ GridOnly

ConfigSpec == ConfigInit /\ [][ConfigNext]_vars

(***************************************************************************)
(* The tone service in a browser that offers audio, offers no AudioContext *)
(* or fails to create the oscillator and gain nodes: the host calls        *)
(* tone(), stop() and mute(), and the Note Picker plays its keys.          *)
(***************************************************************************)
ToneArgs == {0, 262000, 440000}
GainArgs == {0, 1, 2}

AudioOnly ==
  UNCHANGED <<fieldVars, keyVars, pageVars, htmlInputValue, timers, histVars,
              globalVars>>

\* AudioContextManager.tone(freq, g) called by the host
ToneCall(freq, g) == SetAudio(tone(AudioState, freq, g)) /\ AudioOnly

\* AudioContextManager.stop() called by the host
StopCall == SetAudio(stop(AudioState)) /\ AudioOnly

\* AudioContextManager.mute(m) called by the host
MuteCall(m) == SetAudio(mute(AudioState, m)) /\ AudioOnly

AudioInit ==
  /\ NoteInit
  /\ ~userAgentMobile
  /\ validator_ = "none"
  /\ GridIdle
  /\ BtnIdle
  /\ TxtIdle

AudioNext ==
  \/ (\E freq \in ToneArgs, g \in GainArgs : ToneCall(freq, g)) /\ NoteFrame
  \/ StopCall /\ NoteFrame
  \/ (\E m \in BOOLEAN : MuteCall(m)) /\ NoteFrame
  \/ init /\ NoteFrame
  \/ NoteOpens
  \/ (\E k \in PressKeys : KeyMouseDown(k)) /\ NoteFrame
  \/ (\E t \in timers : TimerFire(t)) /\ NoteFrame
  \/ NoteDismiss /\ NoteFrame

AudioSpec == AudioInit /\ [][AudioNext]_vars

(***************************************************************************)
(* The colours of the keys: the Note Picker opened on a value that is or   *)
(* is not the frequency of a key, and up to MaxPresses activations of keys *)
(* of the first and second octave.                                         *)
(***************************************************************************)
MaxPresses == 3

ColourInit ==
  /\ NoteInit
  /\ audioEnv = "ok"
  /\ ~userAgentMobile
  /\ validator_ = "none"
  /\ GridIdle
  /\ BtnIdle
  /\ TxtIdle

ColourNext ==
  \/ init /\ NoteFrame
  \/ NoteOpens
  \/ (\E k \in PressKeys : actSeq < MaxPresses /\ KeyPress(k)) /\ NoteFrame
  \/ (\E t \in timers : TimerFire(t)) /\ NoteFrame
  \/ NoteDismiss /\ NoteFrame

ColourSpec == ColourInit /\ [][ColourNext]_vars

(***************************************************************************)
(* Properties of the Note Picker's tone timers                             *)
(***************************************************************************)

\* C1: within one open session of the editor, the stop timer of an activation
\* that has been followed by a later activation leaves the audio output as it
\* is when it fires: the later activation's tone keeps sounding.
C1_StaleTimerLeavesTone ==
  [][\A t \in timers :
       (t.session = session /\ t.act < actSeq /\ TimerFire(t))
         => UNCHANGED audioVars]_vars

\* the first of two activations of one session has had its timer run, the
\* second one's timer is pending and its tone still sounds
C1_Witness ==
  \E t \in timers :
    /\ timers = {t}
    /\ t.session = session
    /\ t.cnt = 2
    /\ soundingKeys_ = 2
    /\ _frequency = keyTag[t.key]
    /\ _frequency # 0

\* C2: over the life of the field, re-opening of the editor included, the
\* stop timer of an earlier activation never stops the tone of a later one.
C2_StaleTimerNeverStops ==
  [][\A t \in timers :
       (t.act < actSeq /\ TimerFire(t)) => _frequency' = _frequency]_vars

\* C3: under any interleaving of activations, timers and re-opening, the
\* timer of the latest activation stops the tone when it fires.
C3_LatestTimerStops ==
  [][\A t \in timers :
       (t.act = actSeq /\ TimerFire(t)) => _frequency' = 0]_vars

(***************************************************************************)
(* Properties of the Note Picker's paging                                  *)
(***************************************************************************)

\* the number of pages of the piano on screen
totalPages == piano \div 12

\* C4: whatever next and previous requests were made, the current page is at
\* least 0 and below totalPages = keyCount / 12; a previous request on page 0
\* and a next request on the last page leave the page as it is.
C4_PageInRange ==
  /\ [](navButtons => /\ Npages_1 = totalPages
                      /\ 0 <= currentPage_1
                      /\ currentPage_1 < totalPages)
  /\ [][/\ (currentPage_1 = 0 /\ PrevMouseDown) => UNCHANGED currentPage_1
        /\ (currentPage_1 = totalPages - 1 /\ NextMouseDown)
             => UNCHANGED currentPage_1]_vars

\* a previous request has been made and the editor shows page 0 of several
C4_Witness ==
  /\ navButtons
  /\ totalPages > 1
  /\ nextRun = -1
  /\ currentPage_1 = 0

\* C5: for each key count the pages cover the keys, and totalPages next
\* requests made from page 0 end on page totalPages - 1, never beyond it.
C5_NextRunEndsOnLastPage ==
  navButtons =>
    /\ piano \in PianoSizes
    /\ totalPages * 12 >= piano
    /\ nextRun >= 0 => currentPage_1 = Min(nextRun, totalPages - 1)

\* totalPages next requests in a row have been made on the largest piano
C5_Witness ==
  /\ navButtons
  /\ piano = pianoSizeLarge
  /\ nextRun = totalPages
  /\ currentPage_1 = totalPages - 1

\* the keys on screen
VisibleKeys == {k \in DOMAIN keyVisible : keyVisible[k]}

\* C6: in every state that next and previous requests lead to, the keys on
\* screen are the twelve keys of the current page; a request that changes the
\* page hides one block of twelve keys and shows one.
C6_OnePageVisible ==
  /\ [](navButtons => VisibleKeys = Octave(12 * currentPage_1))
  /\ [][(currentPage_1' # currentPage_1
           /\ (PrevMouseDown \/ NextMouseDown))
          => /\ VisibleKeys \ VisibleKeys' = Octave(12 * currentPage_1)
             /\ VisibleKeys' \ VisibleKeys = Octave(12 * currentPage_1')
             /\ Cardinality(VisibleKeys \ VisibleKeys') = 12
             /\ Cardinality(VisibleKeys' \ VisibleKeys) = 12]_vars

\* the third page of a piano is on screen
C6_Witness ==
  /\ navButtons
  /\ currentPage_1 = 2
  /\ VisibleKeys = 24..35

(***************************************************************************)
(* Properties of the Note Picker's selection highlight                     *)
(***************************************************************************)

\* the keys that show the highlight colour
Highlighted == {k \in DOMAIN keyBg : keyBg[k] = selectedKeyColor_}

\* C7: at most one key shows the highlight colour; an activation of key k
\* while another key j is the selected one leaves exactly k highlighted and
\* gives j the colour it had before it was selected.
C7_OneKeyHighlighted ==
  /\ [](Cardinality(Highlighted) <= 1)
  /\ [][\A k \in PressKeys :
          (currentSelectedKey # -1 /\ currentSelectedKey # k /\ KeyMouseDown(k))
            => /\ Highlighted' = {k}
               /\ keyBg'[currentSelectedKey] = getBgColor_(currentSelectedKey)
               /\ \A i \in DOMAIN keyBg \ {k, currentSelectedKey} :
                     keyBg'[i] = keyBg[i]]_vars

\* two different keys were activated one after the other in this session:
\* the second is highlighted, the first is back to its own colour
C7_Witness ==
  \E t1, t2 \in timers :
    /\ t1.session = session /\ t2.session = session
    /\ t1.cnt = 1 /\ t2.cnt = 2
    /\ t1.key # t2.key
    /\ soundingKeys_ = 2
    /\ Highlighted = {t2.key}
    /\ keyBg[t1.key] = getBgColor_(t1.key)

(***************************************************************************)
(* Properties of dispose                                                   *)
(***************************************************************************)

\* C8: once dispose() of the toolbox button has returned, the mouseup
\* listener that createDom bound is no longer bound.
C8_DisposeUnbindsListener == btnDisposeCalls > 0 => ~mouseUpBound

\* C9: a second dispose() of the toolbox button changes nothing of the
\* button's state, and leaves no listener bound and no SVG group.
C9_DisposeTwice ==
  [][(flyoutDispose /\ btnDisposeCalls >= 1)
       => /\ UNCHANGED <<mouseUpBound, svgGroup_, workspace_, mouseUpWrapper_,
                         onMouseUpWrapper_, callback_, width>>
          /\ ~mouseUpBound'
          /\ ~svgGroup_']_vars

\* C10: once the Grid Picker is disposed, each tooltip that any open of the
\* picker created has been disposed, and the tooltip list is empty.
C10_DisposeDisposesTooltips ==
  gridDisposeCalls > 0 =>
    /\ tooltips_ = << >>
    /\ \A id \in 1..Len(tipDisposed) : tipDisposed[id] >= 1

\* the picker was opened twice and then disposed
C10_Witness ==
  /\ gridDisposeCalls > 0
  /\ gridOpens = 2
  /\ Len(tipDisposed) = 2 * options
  /\ options > 1

(***************************************************************************)
(* Properties of the editors' lifecycle                                    *)
(***************************************************************************)

\* the Grid Picker holds no live tooltip: its list is empty and every tooltip
\* it ever created has been disposed
GridReleased ==
  /\ tooltips_ = << >>
  /\ \A id \in 1..Len(tipDisposed) : tipDisposed[id] >= 1

\* the Note Picker holds no rendered key, no key listener and no page buttons
NoteReleased ==
  /\ domKeys = 0
  /\ listenKeys = 0
  /\ ~navButtons

\* C11: a Grid Picker commit (an item is selected) and a Grid Picker dismissal
\* both end with the overlay closed and no live tooltip held by the picker; a
\* key activation of the Note Picker ends with the overlay closed and the
\* picker's keys and listeners released.
C11_TerminalTransitionsRelease ==
  [][/\ (widgetOwner = "grid"
           /\ ((\E item \in 1..MaxOptions : gridCallback(item)) \/ GridDismiss))
          => (widgetOwner' = "none" /\ GridReleased')
     /\ (widgetOwner = "note" /\ (\E k \in PressKeys : KeyMouseDown(k)))
          => (widgetOwner' = "none" /\ NoteReleased')]_vars

\* the editors whose overlay is rendered in the WidgetDiv
OpenOverlays ==
  {e \in {"note", "grid", "text"} :
     \/ e = "note" /\ htmlInputValue # NoText
     \/ e = "grid" /\ gridRows # << >>
     \/ e = "text" /\ removeButton}

\* the text input holds no remove icon and no listener on one
TextReleased ==
  /\ ~removeButton
  /\ ~removeButtonMouseWrapper_

\* C12: in every reachable state at most one overlay is open; an editor that
\* opens while another one is open leaves that one closed and released.
C12_OneOverlayPreviousReleased ==
  /\ [](Cardinality(OpenOverlays) <= 1)
  /\ [][/\ (widgetOwner = "grid" /\ (NoteOpens \/ TextOpens))
             => (gridRows' = << >> /\ GridReleased')
        /\ (widgetOwner = "note" /\ (GridOpens \/ TextOpens))
             => NoteReleased'
        /\ (widgetOwner = "text" /\ (NoteOpens \/ GridOpens))
             => TextReleased']_vars

\* C13: once an editor that the Note Picker or the Grid Picker opened is
\* committed or dismissed (the overlay is hidden, or the field is disposed),
\* no event group is open; a group is open only while the Note Picker that
\* opened it is open.
C13_NoGroupOnceClosed ==
  /\ (widgetOwner = "none" \/ sourceBlock_ = "disposed") => eventGroup = 0
  /\ eventGroup # 0 => (widgetOwner = "note" /\ eventGroup = session)

\* a Grid Picker was opened and dismissed, and a Note Picker session in which
\* a key activation changed the value is over
C13_Witness ==
  /\ widgetOwner = "none"
  /\ session > 0
  /\ lastChange.group = session
  /\ gridOpens > 0
  /\ eventGroup = 0

(***************************************************************************)
(* Properties of the value-change notifications                            *)
(***************************************************************************)
Fired == lastChange' # lastChange

C15_OneGroupPerSession ==
  /\ [](eventGroup # 0 => (eventGroup = session /\ widgetOwner = "note"))
  /\ [][(widgetOwner = "note" /\ widgetOwner' = "note" /\ session' = session)
          => eventGroup' = eventGroup]_vars
  /\ [][(widgetOwner = "note" /\ Fired /\ \E k \in PressKeys : KeyMouseDown(k))
          => (lastChange'.group = session /\ session # 0)]_vars

\* two key activations of the first session have both changed the value and
\* the session is still open
C15_Witness ==
  /\ session = 1
  /\ actSeq = 2
  /\ widgetOwner = "note"
  /\ eventGroup = 1
  /\ lastChange.group = 1
  /\ lastChange.old # 261626
  /\ lastChange.new = note_

(***************************************************************************)
(* Properties of FieldNote.setValue                                        *)
(***************************************************************************)
\* a text that is not a number: with or without a number in front
Malformed(c) == c.kind \in {"prefix", "text"}
\* a number below zero, alone or in front of other text
Negative(c) == c.kind \in {"num", "prefix"} /\ c.v < 0
\* the number a candidate starts with; 0 for the empty text and for null
LeadingNumber(c) == IF c.kind \in {"num", "prefix"} THEN c.v ELSE 0

\* C16 as stated: setValue with a malformed or a negative candidate leaves
\* the value and the displayed text unchanged and fires no notification
C16_MalformedDeclined ==
  [][\A c \in Candidates :
       (HostSetValue(c) /\ (Malformed(c) \/ Negative(c)))
         => UNCHANGED <<note_, text_, lastChange>>]_vars

\* C16: setValue with a candidate that does not start with a number, or
\* that starts with a negative number, leaves the value and the displayed
\* text unchanged and fires no notification; every other candidate is taken
\* as the number it starts with, text after the number being ignored and
\* the empty text and null counting as 0
C16_UnreadableDeclined ==
  [][\A c \in Candidates :
       HostSetValue(c)
         => IF c.kind = "text" \/ Negative(c)
            THEN UNCHANGED <<note_, text_, lastChange>>
            ELSE note_' = LeadingNumber(c)]_vars

\* on a block whose note the host had set to 440 Hz, setValue was called
\* with a text that holds no number, and the note is still 440 Hz
C16_Witness ==
  /\ candidate = TextCand
  /\ sourceBlock_ = "block"
  /\ note_ = 440000
  /\ lastChange.new = 440000

\* C17: setValue runs the validator on the candidate: a rejected candidate
\* leaves the value, the text and the notifications as they were, and an
\* accepted one is stored as the validator returned it
C17_ValidatorDecides ==
  [][\A c \in Candidates :
       HostSetValue(c)
         => IF callValidator(validator_, c).ok
            THEN note_' = callValidator(validator_, c).v
            ELSE UNCHANGED <<note_, text_, lastChange>>]_vars

(***************************************************************************)
(* Properties of the placement of the open editor.  The measurement the    *)
(* open editor was placed with is in geo: A is (geo.x, geo.y, geo.bw,      *)
(* geo.bh), S is (geo.ow, geo.oh), the viewport is (geo.ww, geo.wh) and    *)
(* the scroll offset (geo.sx, geo.sy).                                     *)
(***************************************************************************)
\* page coordinates of the top left corner of the Note Picker's keys: they
\* are laid out in the piano div, which follows the text input in the
\* WidgetDiv at the anchor
NoteTop == (geo.y + geo.bh) + topPosition
NoteLeft == geo.x + leftPosition

NotePickerPlaced == widgetOwner = "note" /\ ~mobile
GridPickerPlaced == widgetOwner = "grid" /\ gridPositioned

\* A.y + A.height + S.height < viewport.height
Fits == (geo.y + geo.bh) + geo.oh < geo.wh
\* the overlay below the anchor would reach the bottom of the scrolled viewport
OffBottom == (geo.y + geo.bh) + geo.oh >= geo.wh + geo.sy

Overflow(x) == (x + geo.ow) - (geo.ww + geo.sx)

MirroredLeft(overhang) == ((geo.x + geo.bw) + overhang) - geo.ow
ShiftedByDeficit(left) == IF left < geo.sx THEN geo.sx ELSE left

\* C21: in right-to-left mode an overlay whose mirrored left edge falls left
\* of scrollX is shifted right by exactly the deficit, so that its left edge
\* ends at scrollX, and is kept at the mirrored position otherwise, for the
\* Grid Picker and for the Note Picker
C21_ClampByDeficit ==
  /\ (NotePickerPlaced /\ geo.rtl)
       => NoteLeft = ShiftedByDeficit(MirroredLeft(0))
  /\ (GridPickerPlaced /\ geo.rtl)
       => gridXY.x - geo.ow = ShiftedByDeficit(MirroredLeft(CHECKMARK_OVERHANG))

\* the size of the keys the first open in a viewport of width ww gives
FreshKeyWidth(mob, ww) == IF mob THEN CeilDiv(ww, 7) ELSE DefaultKeyWidth
FreshKeyHeight(mob, ww) ==
  IF mob THEN CeilDiv(FreshKeyWidth(mob, ww) * DefaultKeyHeight, DefaultKeyWidth)
  ELSE DefaultKeyHeight

\* C22: the size and the position of the open overlay depend on the anchor,
\* the content, the viewport and the direction of this open alone: they are
\* what the first open of the picker gives for them, whichever opens came
\* before
C22_PlacementFromThisOpenAlone ==
  /\ widgetOwner = "grid"
       => /\ width_ = Min(DefaultWidth, geo.ww)
          /\ gridPositioned => gridXY = gridPlacement(PlainMeasurement, geo.ww)
  /\ widgetOwner = "note"
       => /\ keyWidth_ = FreshKeyWidth(mobile, geo.ww)
          /\ keyHeight_ = FreshKeyHeight(mobile, geo.ww)
          /\ geo.oh = pianoHeightOf(FreshKeyHeight(mobile, geo.ww), PlainMeasurement.mh)

(***************************************************************************)
(* Properties of the note entries and of the opened pickers                *)
(***************************************************************************)
\* C23: whenever the Note Picker is open, the list of note names and the
\* list of note frequencies have keyCount entries each, entry i being piano
\* key startKey + i
C23_EntriesMatchKeyCount ==
  widgetOwner = "note"
    => /\ Len(noteName_) = nKeys_
       /\ Len(noteFreq_) = nKeys_
       /\ \A i \in 1..Len(noteFreq_) : noteFreq_[i] = KeyFreq((StartKey(nKeys_) + i) - 1)

\* C27: opening the Grid Picker and opening the Note Picker complete: the
\* Grid Picker is positioned, and every key of the piano is rendered with
\* its listeners and followed by the note label
C27_OpensComplete ==
  /\ widgetOwner = "grid" => gridPositioned
  /\ widgetOwner = "note"
       => /\ domKeys = nKeys_
          /\ listenKeys = nKeys_
          /\ labelText # ""

\* the field is installed with the 36 keys it was configured for
Installed36 == sourceBlock_ = "block" /\ nKeys_ = pianoSizeMedium /\ Len(noteFreq_) = nKeys_

\* C24 as stated: for 36 keys the first note entry is named "Low C" and has
\* the frequency of piano key 40, about 261.63 Hz
C24_LowCIsKey40 ==
  Installed36 => (noteName_[1] = "Low C" /\ noteFreq_[1] = 261626)

\* C24: for 36 keys the first note entry is named "Low C" and has the
\* frequency of piano key 28, about 130.81 Hz; piano key 40, about
\* 261.63 Hz, is the thirteenth entry, named "Middle C"
C24_LowCIsKey28 ==
  Installed36
    => /\ noteName_[1] = "Low C"
       /\ noteFreq_[1] = 130813
       /\ noteName_[13] = "Middle C"
       /\ noteFreq_[13] = 261626

\* the field was installed with 36 keys and its editor shows them
C24_Witness ==
  /\ Installed36
  /\ widgetOwner = "note"
  /\ listenKeys = pianoSizeMedium
  /\ keyTag[0] = 130813

(***************************************************************************)
(* Properties of the displayed text                                        *)
(***************************************************************************)
\* the generated keys whose frequency is less than 1 Hz from the value
KeysNearValue == {i \in 1..Len(noteFreq_) : Abs(noteFreq_[i] - note_) < 1000}

\* C25 as stated: the displayed text of the installed field is the name of a generated key that is
\* within 1 Hz of the value, and without such a key the value rounded to 2
\* decimals, followed by the unit
C25_NameOrRoundedHz ==
  sourceBlock_ = "block"
    => IF KeysNearValue # {}
       THEN \E i \in KeysNearValue : text_ = NameText(noteName_[i])
       ELSE text_ = HzText(toFixed2(note_))

\* C25: the displayed text of the installed field, while its editor is not
\* open, is the name of a generated key that is within 1 Hz of the value,
\* and without such a key the value as it is stored, not rounded, followed
\* by the unit
C25_NameOrStoredHz ==
  (sourceBlock_ = "block" /\ widgetOwner # "note")
    => IF KeysNearValue # {}
       THEN \E i \in KeysNearValue : text_ = NameText(noteName_[i])
       ELSE text_ = HzText(note_)

\* the host has set 300.123 Hz on the installed field, after a value that
\* is shown by the name of its key
C25_Witness ==
  /\ sourceBlock_ = "block"
  /\ candidate = NumCand(300123)
  /\ text_ = HzText(300123)
  /\ lastChange.old = 262500

(***************************************************************************)
(* Properties of the Note Picker's pages at the open                       *)
(***************************************************************************)
\* the white keys of a piano of nk keys: 7 per octave
WhiteKeys(nk) == nk - ((nk \div 12) * 5)

\* C26: the Note Picker opens with all its keys in the DOM; if the piano,
\* the width of a key as rendered times the number of white keys, is wider
\* than the editor, exactly the first 12 keys are visible and the prev/next
\* buttons are there, and if it is not, every key is visible
C26_PaginatedWhenTooWide ==
  [][\A q \in BOOLEAN, ew \in EditorWidths, ww \in WindowWidths :
       (session' = session + 1 /\ showEditor_(q, ew, ww, PlainMeasurement))
         => /\ domKeys' = nKeys_
            /\ IF keyWidth_' * WhiteKeys(nKeys_) > ew
               THEN /\ \A i \in 0..(nKeys_ - 1) : keyVisible'[i] <=> i < 12
                    /\ navButtons'
               ELSE \A i \in 0..(nKeys_ - 1) : keyVisible'[i]]_vars

\* a piano of 36 keys is open on a desktop, paginated: the twelfth key is
\* visible, the thirteenth is hidden
C26_Witness ==
  /\ widgetOwner = "note"
  /\ ~mobile
  /\ pagination
  /\ nKeys_ = pianoSizeMedium
  /\ domKeys = pianoSizeMedium
  /\ navButtons
  /\ keyVisible[11]
  /\ ~keyVisible[12]

(***************************************************************************)
(* Properties of the toolbox button and label                              *)
(***************************************************************************)
\* C28: a label has no callback, and one configured with a callback key was
\* warned about; a button whose key is missing or not registered has no
\* callback, was warned about, and a mouse-up on it invokes nothing; a
\* button with a registered key invokes its callback once per mouse-up
C28_CallbackOnlyForRegisteredButton ==
  /\ [](isLabel_ => (~callback_ /\ callbackCalls = 0 /\ (warned <=> callbackKey # "none")))
  /\ []((~isLabel_ /\ callbackKey # "registered")
          => (~callback_ /\ warned /\ callbackCalls = 0))
  /\ []((~isLabel_ /\ callbackKey = "registered") => (callback_ /\ ~warned))
  /\ [][onMouseUp_
          => callbackCalls' = callbackCalls
               + (IF ~isLabel_ /\ callbackKey = "registered" THEN 1 ELSE 0)]_vars

\* a button with a registered key has seen two mouse-ups and called its
\* callback twice
C28_Witness ==
  /\ ~isLabel_
  /\ callbackKey = "registered"
  /\ mouseUpBound
  /\ callbackCalls = 2

\* the width reserved for a configured icon: the glyph and a margin on each
\* side of it
IconExtra == IF icon_ THEN 20 + (2 * 40) ELSE 0

\* C29 as stated: the rendered width of a label and of a button is the text
\* width plus the margin of 40 on each side, plus the width reserved for the
\* icon when one is configured
C29_WidthWithMargins ==
  svgGroup_ => width = (textWidth + (2 * 40)) + IconExtra

\* C29: the rendered width of a button is the text width plus the margin of
\* 40 on each side, and the rendered width of a label is the text width
\* alone; the width reserved for the icon is added to either when one is
\* configured
C29_WidthWithMarginsForButtons ==
  svgGroup_
    => width = (textWidth + (IF isLabel_ THEN 0 ELSE 2 * 40)) + IconExtra

\* a label without an icon and a text 50 wide is rendered 50 wide
C29_Witness ==
  /\ svgGroup_
  /\ isLabel_
  /\ ~icon_
  /\ textWidth = 50
  /\ width = 50

(***************************************************************************)
(* Properties of the tone service                                          *)
(***************************************************************************)

\* C30: when the audio subsystem is unavailable (no audio context, or the
\* oscillator and gain nodes cannot be created), tone() is a no-op: it
\* leaves the frequency reported by frequency(), the mute flag, the nodes
\* and their gain as they are
C30_ToneIsNoOpWithoutAudio ==
  [][\A freq \in ToneArgs, g \in GainArgs :
       (audioEnv # "ok" /\ ToneCall(freq, g))
         => /\ frequency(AudioState)' = frequency(AudioState)
            /\ UNCHANGED <<_mute, _vco, gain>>]_vars

(***************************************************************************)
(* Properties of a key activation                                          *)
(***************************************************************************)

\* C31: immediately after the activation of a key, with audio available and
\* the service not muted, the field value and the sounding frequency both
\* equal the activated key's frequency, the tone sounds at full gain, and
\* the activated key is the selected one
C31_ActivationSetsValueAndTone ==
  [][\A k \in PressKeys :
       (audioEnv = "ok" /\ ~_mute /\ KeyMouseDown(k))
         => /\ note_' = keyTag[k]
            /\ frequency(AudioState)' = keyTag[k]
            /\ _vco'
            /\ gain' = 1
            /\ currentSelectedKey' = k
            /\ keyBg'[k] = selectedKeyColor_]_vars

\* key 12 has been activated while another tone could sound: the value and
\* the tone are its frequency
C31_Witness ==
  /\ audioEnv = "ok"
  /\ ~_mute
  /\ widgetOwner = "note"
  /\ actSeq = 2
  /\ currentSelectedKey = 12
  /\ note_ = keyTag[12]
  /\ _frequency = keyTag[12]
  /\ gain = 1

(***************************************************************************)
(* Properties of the Grid Picker's rows, scrolling, tooltips and width     *)
(***************************************************************************)

\* the cells <<row, column>> of the open grid
GridCells == {rc \in (1..Len(gridRows)) \X (1..MaxOptions + 1) : rc[2] <= Len(gridRows[rc[1]])}

\* C32: the open grid has ceil(n / c) rows for n options and c columns,
\* every row but the last holds c items, and row r (counted from 0) holds
\* the options r*c .. min(r*c + c, n) - 1 in their order, so that every
\* option appears exactly once (option i of the source is numbered i + 1)
C32_RowsPartitionOptions ==
  widgetOwner = "grid"
    => /\ Len(gridRows) = CeilDiv(options, columns_)
       /\ \A r \in 1..(Len(gridRows) - 1) : Len(gridRows[r]) = columns_
       /\ \A r \in 1..Len(gridRows) :
            /\ Len(gridRows[r]) = Min(((r - 1) * columns_) + columns_, options)
                                    - ((r - 1) * columns_)
            /\ \A j \in 1..Len(gridRows[r]) :
                 gridRows[r][j] = ((r - 1) * columns_) + j
       /\ \A o \in 1..options :
            Cardinality({rc \in GridCells : gridRows[rc[1]][rc[2]] = o}) = 1

\* five options in four columns: two rows, the last with one item
C32_Witness ==
  /\ widgetOwner = "grid"
  /\ options = 5
  /\ columns_ = 4
  /\ Len(gridRows) = 2
  /\ gridRows[2] = <<5>>

\* C33: in the open grid, when a row limit is configured and the content is
\* higher than the limit allows, the scroll container is clamped and scrolls
\* ('overflow-y: auto') and the item whose value is the field's value is
\* scrolled into view; without a row limit the container is never clamped
C33_ClampAndScrollToSelected ==
  widgetOwner = "grid"
    => /\ (maxRows_ > 0 /\ Len(gridRows) > maxRows_)
            => /\ overflowY = "auto"
               /\ value_ \in GridItems => scrolledItem = value_
       /\ maxRows_ = 0 => (overflowY = "" /\ scrolledItem = 0)

\* three rows under a limit of one row, opened on the value of the last row
C33_Witness ==
  /\ widgetOwner = "grid"
  /\ maxRows_ = 1
  /\ Len(gridRows) = 3
  /\ value_ = 5
  /\ overflowY = "auto"
  /\ scrolledItem = 5

(***************************************************************************)
(* Properties of the muted tone service                                    *)
(***************************************************************************)

\* C34: in every reachable state a muted tone service reports the frequency
\* 0 and has no gain, and a call of tone() made while it is muted changes
\* nothing of its state, in any interleaving of mute, tone, stop and the
\* Note Picker's own calls
C34_MutedIsSilent ==
  /\ [](_mute => (frequency(AudioState) = 0 /\ gain = 0))
  /\ [][\A freq \in ToneArgs, g \in GainArgs :
          (_mute /\ ToneCall(freq, g)) => UNCHANGED audioVars]_vars

\* the service was muted after a key of the Note Picker had sounded
C34_Witness ==
  /\ _mute
  /\ _vco
  /\ actSeq > 0
  /\ _frequency = 0
  /\ gain = 0

(***************************************************************************)
(* Properties of page navigation and hovering                              *)
(***************************************************************************)

\* C35: a previous or next request, at an edge page or not, and hovering a
\* key change only the visible page and the label: the field value and text,
\* the last change notification, the selected key and the keys' colours, the
\* activation counter, the pending stop timers and the tone service stay as
\* they are
C35_NavigationAndHoverOnlyPageAndLabel ==
  [][(PrevMouseDown \/ NextMouseDown \/ \E k \in HoverKeys : KeyMouseOver(k))
       => UNCHANGED <<audioVars, fieldVars, piano, domKeys, listenKeys, keyTag,
                      keyBg, currentSelectedKey, previousColor, pagination,
                      mobile, navButtons, Npages_1, htmlInputValue, globalVars,
                      timers, session, actSeq>>]_vars

\* the second page is shown while the tone of the selected key still sounds
C35_Witness ==
  /\ widgetOwner = "note"
  /\ currentPage_1 = 1
  /\ labelText = "Octave #2"
  /\ currentSelectedKey = 1
  /\ _frequency = keyTag[1]
  /\ timers # {}

(***************************************************************************)
(* Properties of the keys' colours                                         *)
(***************************************************************************)

\* C36: the activation of a key other than the selected one gives the
\* selected key, whether it was activated once or several times in a row or
\* was highlighted at open because it matches the value, its original colour
\* (white or black) back; in the open picker the selected key alone has the
\* highlight colour
C36_DeselectedKeyGetsOriginalColour ==
  /\ [](widgetOwner = "note"
          => \A i \in DOMAIN keyBg :
               keyBg[i] = IF i = currentSelectedKey THEN selectedKeyColor_
                          ELSE getBgColor_(i))
  /\ [][\A k \in PressKeys :
          (currentSelectedKey # -1 /\ currentSelectedKey # k /\ KeyPress(k))
            => keyBg'[currentSelectedKey] = getBgColor_(currentSelectedKey)]_vars

\* key 1 was activated twice in a row and then key 12: key 1 is black again
C36_Witness ==
  /\ widgetOwner = "note"
  /\ actSeq = 3
  /\ \E t1, t2, t3 \in timers :
       /\ t1.session = session /\ t1.act = 1 /\ t1.key = 1
       /\ t2.session = session /\ t2.act = 2 /\ t2.key = 1
       /\ t3.session = session /\ t3.act = 3 /\ t3.key = 12
  /\ currentSelectedKey = 12
  /\ keyBg[1] = "black"
  /\ keyBg[12] = selectedKeyColor_

(***************************************************************************)
(* Properties of the page shown at open                                    *)
(***************************************************************************)

\* C37: a Note Picker that opens paginated shows page 0 with the label
\* 'Octave #1' whatever the field's value is: the keys of the first octave
\* are visible and no other, and a key of a later octave that matches the
\* value is highlighted and hidden; it stays hidden as long as page 0 is the
\* page shown
C37_PaginatedOpensOnFirstPage ==
  /\ [][(session' = session + 1 /\ pagination' /\ navButtons')
          => /\ currentPage_1' = 0
             /\ labelText' = "Octave #1"
             /\ \A i \in DOMAIN keyVisible' : keyVisible'[i] <=> i < 12
             /\ \A i \in DOMAIN keyTag' :
                  Matches(keyTag'[i], note_')
                    => (keyBg'[i] = selectedKeyColor_ /\ currentSelectedKey' = i)]_vars
  /\ [](widgetOwner = "note" /\ pagination /\ navButtons /\ currentPage_1 = 0
          => \A i \in DOMAIN keyVisible : i > 11 => ~keyVisible[i])

\* the picker has opened paginated on the value of the first key of the
\* second octave: the key is highlighted and hidden
C37_Witness ==
  /\ widgetOwner = "note"
  /\ pagination
  /\ navButtons
  /\ currentPage_1 = 0
  /\ labelText = "Octave #1"
  /\ note_ = 261626
  /\ currentSelectedKey = 12
  /\ keyBg[12] = selectedKeyColor_
  /\ ~keyVisible[12]

(***************************************************************************)
(* Properties of the Grid Picker's tooltips and width over its opens       *)
(***************************************************************************)

\* the tooltips created and not disposed
LiveTooltips == {id \in 1..Len(tipDisposed) : tipDisposed[id] = 0}

\* C38: over the opens, selections and disposals of the Grid Picker no
\* tooltip is disposed more than once, the tooltip list holds only tooltips
\* that the most recent open created, every tooltip outside the list has
\* been disposed, and so the live tooltips are never more than the options
\* of the most recent open
C38_TooltipsOfLatestOpenOnly ==
  /\ \A id \in 1..Len(tipDisposed) : tipDisposed[id] <= 1
  /\ \A x \in 1..Len(tooltips_) :
       /\ tooltips_[x] > Len(tipDisposed) - options
       /\ tooltips_[x] <= Len(tipDisposed)
  /\ LiveTooltips = {tooltips_[x] : x \in 1..Len(tooltips_)}
  /\ Cardinality(LiveTooltips) <= options

\* the second open of a picker of three options: the three tooltips of the
\* first open are disposed, the three of the second are live
C38_Witness ==
  /\ widgetOwner = "grid"
  /\ gridOpens = 2
  /\ options = 3
  /\ tooltips_ = <<4, 5, 6>>
  /\ tipDisposed = <<1, 1, 1, 0, 0, 0>>

\* C39: the width of the grid starts as the configured width, every open
\* makes it the smaller of what it was and the viewport width of that open,
\* and nothing else changes it: at every open it is the smallest of the
\* configured width and the viewport widths of the opens so far, and it does
\* not grow back when the viewport widens
C39_WidthIsRunningMinimum ==
  /\ [](gridOpens = 0 => width_ = DefaultWidth)
  /\ [](widgetOwner = "grid" => width_ <= geo.ww)
  /\ [][/\ width_' <= width_
        /\ gridOpens' = gridOpens + 1 => width_' = Min(width_, geo'.ww)
        /\ gridOpens' = gridOpens => width_' = width_]_vars

\* opened in a viewport 300 wide and then in one 700 wide: the width is 300
C39_Witness ==
  /\ widgetOwner = "grid"
  /\ gridOpens = 2
  /\ geo.ww = 700
  /\ width_ = 300
============================================================================
